---- MODULE Spec2Model ----
(***************************************************************************)
(* AnaDec financeCore: the rate value (tasa_interes.py), the conversion to *)
(* annual effective (convertidor.py) and the ranking (comparador.py).      *)
(*                                                                         *)
(* Representation.                                                         *)
(*   - A float rate is an integer number of millionths (0.24 = 240000):    *)
(*     the engine rounds every rate it returns to `precision` = 6 places.  *)
(*   - A Python str is a sequence of one-character strings.                *)
(*   - An Optional value is a set: None is {}, a present value x is {x}.   *)
(*   - A call's outcome is Ok(v) (it returned v) or Err(e) (it raised e).  *)
(***************************************************************************)
EXTENDS Integers, Sequences, FiniteSets, TLC

VARIABLES
    ranking,      \* Comparador.ranking: None or Some(table)
    op,           \* the Comparador method that ran last ("init" before any)
    entrada,      \* lista_opciones of the last ranking call
    salida,       \* outcome of the last Comparador call
    ultima,       \* history: Some(table the last completed ranking call returned)
    ctor_args,    \* arguments of one TasaInteres(...) construction
    ctor_res,     \* None before, Some(outcome) after __post_init__ ran
    texto,        \* argument of one TasaInteres.from_string call
    parse_res,    \* None before, Some(outcome) after from_string ran
    cadena,       \* None before, Some(outcome) after to_string ran on the parsed rate
    vuelta,       \* None before, Some(outcome) after from_string ran on that string
    conv_op,      \* the Convertidor method called last ("-" before any)
    conv_args,    \* its arguments
    conv_res,     \* its outcome
    conv_origen,  \* Some(nominal rate) when the call re-nominalises that rate's
                  \* periodic effective, None otherwise
    calc_op,      \* the Calculador / Estandarizador method called last ("-" before any)
    calc_args,    \* its arguments
    calc_res,     \* its outcome
    calc_traza,   \* the methods a Calculador call went through, in order
    hilo_pc,      \* two callers of one Comparador: where each caller is
    hilo_tabla,   \* the outcome of each caller's ranking call (None before it)
    hilo_mejor,   \* what each caller's mejor_opcion returned (None before it)
    hilo_origen,  \* history: ultimo_hilo when the caller's mejor_opcion ran
    ultimo_hilo,  \* history: Some(the caller whose ranking call completed last)
    inst_ranking, \* several Comparador instances: the ranking retained by each
    inst_op,      \* the call made last on one of them: instance, method, outcome
    inst_ultima   \* history: Some(table the instance's last completed ranking call
                  \* returned)

cmpVars == <<ranking, op, entrada, salida, ultima>>
ctorVars == <<ctor_args, ctor_res>>
parseVars == <<texto, parse_res>>
idaVars == <<cadena, vuelta>>
convVars == <<conv_op, conv_args, conv_res, conv_origen>>
calcVars == <<calc_op, calc_args, calc_res, calc_traza>>
hiloVars == <<hilo_pc, hilo_tabla, hilo_mejor, hilo_origen, ultimo_hilo>>
instVars == <<inst_ranking, inst_op, inst_ultima>>
vars == <<cmpVars, ctorVars, parseVars, idaVars, convVars, calcVars, hiloVars, instVars>>

\* The variables each specification leaves alone
fueraCmp == <<ctorVars, parseVars, idaVars, convVars, calcVars, hiloVars, instVars>>
fueraCtor == <<cmpVars, parseVars, idaVars, convVars, calcVars, hiloVars, instVars>>
fueraParse == <<cmpVars, ctorVars, idaVars, convVars, calcVars, hiloVars, instVars>>
fueraIda == <<cmpVars, ctorVars, convVars, calcVars, hiloVars, instVars>>
fueraConv == <<cmpVars, ctorVars, parseVars, idaVars, calcVars, hiloVars, instVars>>
fueraCalc == <<cmpVars, ctorVars, parseVars, idaVars, convVars, hiloVars, instVars>>
fueraHilo == <<ctorVars, parseVars, idaVars, convVars, calcVars, instVars>>
fueraInst == <<cmpVars, ctorVars, parseVars, idaVars, convVars, calcVars, hiloVars>>

---------------------------------------------------------------------------
(* Generic helpers *)

None == {}
Some(x) == {x}
The(s) == CHOOSE x \in s : TRUE

Ok(v) == [ok |-> TRUE, val |-> v, err |-> "-"]
Err(e) == [ok |-> FALSE, val |-> {}, err |-> e]

RECURSIVE Pow10(_)
Pow10(n) == IF n = 0 THEN 1 ELSE 10 * Pow10(n - 1)

---------------------------------------------------------------------------
(* Python str operations used by the rate value *)

UpperChars == <<"A", "C", "E", "F", "I", "L", "M", "N", "O", "S", "T", "V", "X">>
LowerChars == <<"a", "c", "e", "f", "i", "l", "m", "n", "o", "s", "t", "v", "x">>
Whitespace == {" ", "\t", "\n"}
DigitChars == <<"0", "1", "2", "3", "4", "5", "6", "7", "8", "9">>

IndexOf(c, chars) == CHOOSE k \in 1..Len(chars) : chars[k] = c
InSeq(c, chars) == \E k \in 1..Len(chars) : chars[k] = c

\* str.upper() / str.lower(), one character
UpperChar(c) == IF InSeq(c, LowerChars) THEN UpperChars[IndexOf(c, LowerChars)] ELSE c
LowerChar(c) == IF InSeq(c, UpperChars) THEN LowerChars[IndexOf(c, UpperChars)] ELSE c
upper(s) == [k \in 1..Len(s) |-> UpperChar(s[k])]
lower(s) == [k \in 1..Len(s) |-> LowerChar(s[k])]

\* str.strip(): drops the whitespace at both ends
RECURSIVE lstrip(_)
lstrip(s) == IF s # <<>> /\ Head(s) \in Whitespace THEN lstrip(Tail(s)) ELSE s
RECURSIVE rstrip(_)
rstrip(s) ==
    IF s # <<>> /\ s[Len(s)] \in Whitespace THEN rstrip(SubSeq(s, 1, Len(s) - 1)) ELSE s
strip(s) == rstrip(lstrip(s))

\* str.replace(old, ""), old one character
RECURSIVE remove_char(_, _)
remove_char(s, old) ==
    IF s = <<>> THEN <<>>
    ELSE IF Head(s) = old THEN remove_char(Tail(s), old)
    ELSE <<Head(s)>> \o remove_char(Tail(s), old)

IsDigit(c) == InSeq(c, DigitChars)
DigitVal(c) == IndexOf(c, DigitChars) - 1

---------------------------------------------------------------------------
(* tasa_interes.py: the rate value *)

precision == 6
Escala == Pow10(precision)          \* one unit of rate = Escala millionths

EFECTIVA == <<"e", "f", "e", "c", "t", "i", "v", "a">>
NOMINAL == <<"n", "o", "m", "i", "n", "a", "l">>

\* A mutation of PERIODOS: "S" (semestral) counts 4 months.
PERIODOS_semestre_de_cuatro(c) ==
    CASE c = "M" -> 1 [] c = "T" -> 3 [] c = "S" -> 4 [] c = "A" -> 12

\* PERIODOS / EFECTIVAS: period letter or code -> months
PERIODOS(c) ==
    CASE c = "M" -> 1 [] c = "T" -> 3 [] c = "S" -> 6 [] c = "A" -> 12
EFECTIVAS(code) ==
    CASE code = <<"M", "V">> -> 1 [] code = <<"T", "V">> -> 3 [] code = <<"S", "V">> -> 6
      [] code = <<"E", "A">> -> 12 [] code = <<"A", "V">> -> 12
CodigosEfectivos == {<<"M", "V">>, <<"T", "V">>, <<"S", "V">>, <<"E", "A">>, <<"A", "V">>}
LetrasPeriodo == {"M", "T", "S", "A"}

\* (self.tipo or "").strip().lower(); tipo is Optional[str]
tipo_norm(tipo) == IF tipo = None THEN <<>> ELSE lower(strip(The(tipo)))

\* A mutation of post_init_error: the nominal_period >= period check is lost.
post_init_error_sin_orden(valor, periodo, tipo, periodo_nominal, unidad) ==
    IF valor <= -unidad THEN "ValueError"
    ELSE IF periodo <= 0 THEN "ValueError"
    ELSE IF tipo \notin {EFECTIVA, NOMINAL} THEN "ValueError"
    ELSE IF tipo = NOMINAL /\ periodo_nominal = None THEN "ValueError"
    ELSE IF tipo = NOMINAL /\ The(periodo_nominal) <= 0 THEN "ValueError"
    ELSE "-"

\* __post_init__'s checks, in order, on the normalised tipo: the error raised, or "-".
\* valor is held in units of 1 / unidad
post_init_error(valor, periodo, tipo, periodo_nominal, unidad) ==
    IF valor <= -unidad THEN "ValueError"
    ELSE IF periodo <= 0 THEN "ValueError"
    ELSE IF tipo \notin {EFECTIVA, NOMINAL} THEN "ValueError"
    ELSE IF tipo = NOMINAL /\ periodo_nominal = None THEN "ValueError"
    ELSE IF tipo = NOMINAL /\ The(periodo_nominal) <= 0 THEN "ValueError"
    ELSE IF tipo = NOMINAL /\ The(periodo_nominal) < periodo THEN "ValueError"
    ELSE "-"

\* TasaInteres(valor, periodo, tipo, es_anticipada, periodo_nominal): the dataclass
\* constructor followed by __post_init__, valor in millionths
TasaInteres(valor, periodo, tipo, es_anticipada, periodo_nominal) ==
    LET t == tipo_norm(tipo)
        e == post_init_error(valor, periodo, t, periodo_nominal, Escala)
    IN  IF e # "-" THEN Err(e)
        ELSE Ok([valor |-> valor, periodo |-> periodo, tipo |-> t,
                 es_anticipada |-> es_anticipada, periodo_nominal |-> periodo_nominal])

\* _percent_to_decimal on a matched <digits>[sep <digits>] group: float(pct) / 100,
\* held in units of 10^-decimales.  Exact for up to decimales - 2 decimals of the
\* percentage.
RECURSIVE DigitsValue(_)
DigitsValue(ds) ==
    IF ds = <<>> THEN 0 ELSE 10 * DigitsValue(SubSeq(ds, 1, Len(ds) - 1)) + DigitVal(ds[Len(ds)])
percent_to_decimal(entero, fraccion, decimales) ==
    DigitsValue(entero) * Pow10(decimales - 2)
        + DigitsValue(fraccion) * Pow10(decimales - 2 - Len(fraccion))

\* The number of leading [0-9] characters of s
RECURSIVE LeadingDigits(_)
LeadingDigits(s) ==
    IF s # <<>> /\ IsDigit(Head(s)) THEN 1 + LeadingDigits(Tail(s)) ELSE 0
Drop(s, n) == SubSeq(s, n + 1, Len(s))

\* The common prefix of both patterns, ([0-9]+(?:[.,][0-9]+)?)%? : the match of the
\* group and what is left for the rest of the pattern; matched = FALSE when [0-9]+ fails
match_percent(raw) ==
    LET n1 == LeadingDigits(raw)
        r1 == Drop(raw, n1)
        n2 == IF r1 # <<>> /\ Head(r1) \in {".", ","} THEN LeadingDigits(Tail(r1)) ELSE 0
        r2 == IF n2 > 0 THEN Drop(r1, 1 + n2) ELSE r1
        r3 == IF r2 # <<>> /\ Head(r2) = "%" THEN Tail(r2) ELSE r2
    IN  [matched |-> n1 > 0,
         entero |-> SubSeq(raw, 1, n1),
         fraccion |-> IF n2 > 0 THEN SubSeq(r1, 2, 1 + n2) ELSE <<>>,
         rest |-> r3]

\* _RE_NOMINAL.fullmatch(raw): ^<pct>%?N([MTSA])/([MTSA])([VA])$
RE_NOMINAL(raw) ==
    LET m == match_percent(raw)
        r == m.rest
    IN  [matched |-> /\ m.matched
                     /\ Len(r) = 5
                     /\ r[1] = "N" /\ r[2] \in LetrasPeriodo /\ r[3] = "/"
                     /\ r[4] \in LetrasPeriodo /\ r[5] \in {"V", "A"},
         entero |-> m.entero, fraccion |-> m.fraccion, rest |-> r]

\* A mutation of RE_EFECTIVA: the pattern is not anchored at the end ('$' lost and
\* match instead of fullmatch).
RE_EFECTIVA_sin_ancla(raw) ==
    LET m == match_percent(raw)
        code == IF Len(m.rest) >= 2 THEN SubSeq(m.rest, 1, 2) ELSE m.rest
    IN  [matched |-> m.matched /\ code \in CodigosEfectivos,
         entero |-> m.entero, fraccion |-> m.fraccion, rest |-> code]

\* _RE_EFECTIVA.fullmatch(raw): ^<pct>%?(MV|TV|SV|EA|AV)$
RE_EFECTIVA(raw) ==
    LET m == match_percent(raw)
    IN  [matched |-> m.matched /\ m.rest \in CodigosEfectivos,
         entero |-> m.entero, fraccion |-> m.fraccion, rest |-> m.rest]

\* TasaInteres.from_string(text); text is [es_str, chars].  from_string does not round:
\* the value it yields is held in units of 10^-decimales (it is never negative, so that
\* __post_init__'s check valor > -1 passes in any unit)
from_string_con(text, decimales) ==
    IF ~text.es_str \/ strip(text.chars) = <<>> THEN Err("ValueError")
    ELSE
        LET raw == remove_char(upper(strip(text.chars)), " ")
            m_nom == RE_NOMINAL(raw)
            m_eff == RE_EFECTIVA(raw)
        IN  IF m_nom.matched
            THEN TasaInteres(percent_to_decimal(m_nom.entero, m_nom.fraccion, decimales),
                             PERIODOS(m_nom.rest[4]), Some(NOMINAL),
                             m_nom.rest[5] = "A", Some(PERIODOS(m_nom.rest[2])))
            ELSE IF m_eff.matched
            THEN TasaInteres(percent_to_decimal(m_eff.entero, m_eff.fraccion, decimales),
                             EFECTIVAS(m_eff.rest), Some(EFECTIVA), FALSE, None)
            ELSE Err("ValueError")

\* from_string with the value in millionths, the unit of the conversion engine
from_string(text) == from_string_con(text, precision)

Str(chars) == [es_str |-> TRUE, chars |-> chars]
NoStr == [es_str |-> FALSE, chars |-> <<>>]

---------------------------------------------------------------------------
(* Arithmetic of the conversion engine.  Python computes in binary floating  *)
(* point and rounds the result to `precision` places; the model computes the *)
(* exact rational and rounds it the same way (half to even), which gives the *)
(* same millionths unless the exact result lies within about 1e-16 of a      *)
(* rounding boundary.  Exact powers need more than 32 bits: a big natural is *)
(* a sequence of base-1000 limbs, least significant first.  A rate must stay *)
(* below 1000 (100000%) to be held in millionths.                            *)
(*                                                                           *)
(* The engine rounds what it returns, not what it is given: the rate passed  *)
(* to a conversion may carry more decimals than `precision`.  Each           *)
(* conversion takes `dec`, the number of decimals its argument's value is    *)
(* held to (units of 10^-dec), and returns a value in millionths.            *)

Base == Pow10(3)
LimbsPorEscala == precision \div 3          \* Escala = Base^LimbsPorEscala

\* round(num / den) half to even, for num >= 0, den > 0
RoundDiv(num, den) ==
    LET q == num \div den
        r == num % den
    IN  IF 2 * r > den \/ (2 * r = den /\ q % 2 = 1) THEN q + 1 ELSE q

Abs(x) == IF x < 0 THEN -x ELSE x

RoundDivSigned(num, den) == IF num >= 0 THEN RoundDiv(num, den) ELSE -RoundDiv(-num, den)

\* round(x, ndigits) of a value held in millionths
round(x, ndigits) ==
    IF ndigits >= precision THEN x
    ELSE LET u == Pow10(precision - ndigits)
         IN  IF x >= 0 THEN RoundDiv(x, u) * u ELSE -(RoundDiv(-x, u) * u)

\* big * m for a small natural m (m * Base fits a machine integer)
RECURSIVE MulSmall(_, _, _)
MulSmall(big, m, carry) ==
    IF big = <<>> THEN (IF carry = 0 THEN <<>> ELSE <<carry % Base>> \o MulSmall(<<>>, m, carry \div Base))
    ELSE LET t == Head(big) * m + carry
         IN  <<t % Base>> \o MulSmall(Tail(big), m, t \div Base)

\* m^k as a big natural
RECURSIVE PowBig(_, _)
PowBig(m, k) == IF k = 0 THEN <<1>> ELSE MulSmall(PowBig(m, k - 1), m, 0)

RECURSIVE BigToInt(_)
BigToInt(big) == IF big = <<>> THEN 0 ELSE Head(big) + Base * BigToInt(Tail(big))

\* round(big / Base^n) half to even
RoundShift(big, n) ==
    IF n = 0 THEN BigToInt(big)
    ELSE LET low == SubSeq(big, 1, IF n <= Len(big) THEN n ELSE Len(big))
             q == BigToInt(Drop(big, n))
             top == IF Len(big) >= n THEN big[n] ELSE 0
             restNonZero == \E k \in 1..(Len(low) - 1) : k < n /\ low[k] # 0
             up == \/ 2 * top > Base
                   \/ 2 * top = Base /\ (restNonZero \/ q % 2 = 1)
         IN  IF up THEN q + 1 ELSE q

\* Big naturals in general: n as limbs, sum, product, power, order
RECURSIVE IntToBig(_)
IntToBig(n) == IF n = 0 THEN <<>> ELSE <<n % Base>> \o IntToBig(n \div Base)
RECURSIVE AddBig(_, _, _)
AddBig(x, y, carry) ==
    IF x = <<>> /\ y = <<>> THEN (IF carry = 0 THEN <<>> ELSE <<carry>>)
    ELSE LET t == (IF x = <<>> THEN 0 ELSE Head(x)) + (IF y = <<>> THEN 0 ELSE Head(y)) + carry
         IN  <<t % Base>> \o AddBig(IF x = <<>> THEN <<>> ELSE Tail(x),
                                    IF y = <<>> THEN <<>> ELSE Tail(y), t \div Base)
RECURSIVE MulBig(_, _)
MulBig(x, y) ==
    IF y = <<>> THEN <<>>
    ELSE AddBig(MulSmall(x, Head(y), 0), <<0>> \o MulBig(x, Tail(y)), 0)
RECURSIVE PowBigBig(_, _)
PowBigBig(x, k) == IF k = 0 THEN <<1>> ELSE MulBig(PowBigBig(x, k - 1), x)
ShiftLimbs(big, n) == [k \in 1..n |-> 0] \o big
RECURSIVE Norm(_)
Norm(big) ==
    IF big # <<>> /\ big[Len(big)] = 0 THEN Norm(SubSeq(big, 1, Len(big) - 1)) ELSE big
RECURSIVE LeqNorm(_, _)
LeqNorm(x, y) ==
    IF Len(x) # Len(y) THEN Len(x) < Len(y)
    ELSE IF x = <<>> THEN TRUE
    ELSE IF x[Len(x)] # y[Len(y)] THEN x[Len(x)] < y[Len(y)]
    ELSE LeqNorm(SubSeq(x, 1, Len(x) - 1), SubSeq(y, 1, Len(y) - 1))
LeqBig(x, y) == LeqNorm(Norm(x), Norm(y))

\* m^k for any natural m
PowNat(m, k) == IF m <= 2000 * Base THEN PowBig(m, k) ELSE PowBigBig(IntToBig(m), k)

\* big * 10^n
Por10(big, n) == ShiftLimbs(MulSmall(big, Pow10(n % 3), 0), n \div 3)

\* round((1 + i) ** k - 1, precision) in millionths for an integer exponent k >= 1,
\* i in units of 10^-dec: (10^dec + i)^k / 10^(dec * k - precision), rounded
PotenciaEntera(i, k, dec) ==
    LET sobran == dec * k - precision
        j == (3 - (sobran % 3)) % 3
    IN  RoundShift(Por10(PowNat(Pow10(dec) + i, k), j), (sobran + j) \div 3) - Escala

\* The millionths y nearest to Escala * (1 + i) ** (a / b), i in units of 10^-dec, is
\* the largest y with (2y - 1)^b * 10^(dec * a) <= 2^b * Escala^b * (10^dec + i)^a.
\* It is first located by bisection in fixed-point arithmetic (LimbsFijos limbs after
\* the point, products truncated) and then settled with the exact inequality.
MaxMillonesimas == 1000 * Escala
LimbsFijos == 2 * LimbsPorEscala
MulFijo(x, y) == Drop(MulBig(x, y), LimbsFijos)
RECURSIVE PowFijo(_, _)
PowFijo(x, k) ==
    IF k = 1 THEN x
    ELSE IF k % 2 = 0 THEN LET h == PowFijo(x, k \div 2) IN MulFijo(h, h)
    ELSE MulFijo(PowFijo(x, k - 1), x)
\* (2y - 1) / (2 * Escala) in fixed point
MedioFijo(y) == MulSmall(IntToBig(2 * y - 1), Pow10(3 * LimbsFijos - precision) \div 2, 0)
RECURSIVE Biseccion(_, _, _, _)
Biseccion(lo, hi, b, meta) ==
    IF hi - lo <= 1 THEN lo
    ELSE LET mid == (lo + hi) \div 2
         IN  IF LeqBig(PowFijo(MedioFijo(mid), b), meta) THEN Biseccion(mid, hi, b, meta)
             ELSE Biseccion(lo, mid, b, meta)
CabeExacto(y, a, b, cota, dec) ==
    y <= 0 \/ LeqBig(Por10(PowBigBig(IntToBig(2 * y - 1), b), dec * a), cota)
RECURSIVE Ajuste(_, _, _, _, _)
Ajuste(y, a, b, cota, dec) ==
    IF CabeExacto(y + 1, a, b, cota, dec) THEN Ajuste(y + 1, a, b, cota, dec)
    ELSE IF CabeExacto(y, a, b, cota, dec) THEN y
    ELSE Ajuste(y - 1, a, b, cota, dec)

\* round((1 + i) ** (a / b) - 1, precision) for a fraction a / b in lowest terms, b > 1
PotenciaRacional(i, a, b, dec) ==
    LET base == Pow10(dec) + i
        meta == PowFijo(Por10(IntToBig(base), 3 * LimbsFijos - dec), a)
        cota == Por10(MulBig(PowNat(base, a), PowBig(2, b)), precision * b)
        \* for a < b the power lies between 1 and 1 + i
        uno_mas_i == RoundDivSigned(base, Pow10(dec - precision))
        lo == IF a > b THEN 0 ELSE IF i < 0 THEN uno_mas_i - 1 ELSE Escala - 1
        hi == IF a > b THEN MaxMillonesimas ELSE IF i < 0 THEN Escala + 1 ELSE uno_mas_i + 1
    IN  Ajuste(Biseccion(lo, hi, b, meta), a, b, cota, dec) - Escala

RECURSIVE GCD(_, _)
GCD(x, y) == IF y = 0 THEN x ELSE GCD(y, x % y)

\* round((1 + i) ** (nuevo / actual) - 1, precision) in millionths, i in units of 10^-dec
Potencia(i, nuevo, actual, dec) ==
    LET g == GCD(nuevo, actual)
    IN  IF actual \div g = 1 THEN PotenciaEntera(i, nuevo \div g, dec)
        ELSE PotenciaRacional(i, nuevo \div g, actual \div g, dec)

\* round(num / den, precision) in millionths for integers num, den with den > 0,
\* by long division (num * Escala does not fit a machine integer)
RECURSIVE LongDiv(_, _, _, _)
LongDiv(q, r, den, places) ==
    IF places = 0 THEN [q |-> q, r |-> r]
    ELSE LET \* 10 * r = 2 * (5 * r), taken in two steps to stay within 32 bits
             q5 == (5 * r) \div den
             r5 == (5 * r) % den
         IN  LongDiv(10 * q + 2 * q5 + (2 * r5) \div den, (2 * r5) % den, den, places - 1)
RoundQuot(num, den) ==
    LET a == IF num < 0 THEN -num ELSE num
        d == LongDiv(a \div den, a % den, den, precision)
        up == 2 * d.r > den \/ (2 * d.r = den /\ d.q % 2 = 1)
        m == IF up THEN d.q + 1 ELSE d.q
    IN  IF num < 0 THEN -m ELSE m

---------------------------------------------------------------------------
(* tasa_interes.py: to_string *)

to_string_precision == 6            \* def to_string(self, precision: int = 6)

\* str(n) for n >= 0, and n written with exactly w digits
RECURSIVE IntDigits(_)
IntDigits(n) ==
    IF n < 10 THEN <<DigitChars[n + 1]>> ELSE IntDigits(n \div 10) \o <<DigitChars[(n % 10) + 1]>>
RECURSIVE PadDigits(_, _)
PadDigits(n, w) ==
    IF w = 0 THEN <<>> ELSE PadDigits(n \div 10, w - 1) \o <<DigitChars[(n % 10) + 1]>>

\* str.rstrip(c), c one character
RECURSIVE rstrip_char(_, _)
rstrip_char(s, c) ==
    IF s # <<>> /\ s[Len(s)] = c THEN rstrip_char(SubSeq(s, 1, Len(s) - 1), c) ELSE s

\* f"{pct}" for the float pct = k * 10^-prec: repr gives the shortest decimal that reads
\* back as pct, in positional notation from 1e-4 up (below 1e16, beyond the values held
\* here) and in scientific notation, <mantissa>e-XX, below 1e-4
float_repr(k, prec) ==
    LET a == IF k < 0 THEN -k ELSE k
        signo == IF k < 0 THEN <<"-">> ELSE <<>>
        frac == rstrip_char(PadDigits(a % Pow10(prec), prec), "0")
        ds == rstrip_char(IntDigits(a), "0")
        e == prec - Len(IntDigits(a)) + 1
    IN  IF a = 0 THEN <<"0", ".", "0">>
        ELSE IF prec < 4 \/ a >= Pow10(prec - 4)
        THEN signo \o IntDigits(a \div Pow10(prec)) \o <<".">>
                 \o (IF frac = <<>> THEN <<"0">> ELSE frac)
        ELSE signo \o (IF Len(ds) = 1 THEN ds ELSE <<Head(ds), ".">> \o Tail(ds))
                 \o <<"e", "-">> \o (IF e < 10 THEN <<"0">> ELSE <<>>) \o IntDigits(e)

\* inv_eff.get(self.periodo, str(self.periodo))
inv_eff(periodo) ==
    CASE periodo = 1 -> <<"M", "V">> [] periodo = 3 -> <<"T", "V">>
      [] periodo = 6 -> <<"S", "V">> [] periodo = 12 -> <<"E", "A">>
      [] OTHER -> IntDigits(periodo)

\* inv_p = {v: k for k, v in PERIODOS.items()}: its keys, and inv_p[m]
inv_p_keys == {PERIODOS(c) : c \in LetrasPeriodo}
inv_p(m) == CHOOSE c \in LetrasPeriodo : PERIODOS(c) = m

\* tasa.to_string(precision=prec), the value of tasa held in units of 10^-decimales:
\* the string, or the KeyError of inv_p[...] for a period that is no value of PERIODOS
to_string(tasa, decimales, prec) ==
    LET d == decimales - 2
        \* pct = round(valor * 100.0, prec), in units of 10^-prec
        pct == IF prec >= d THEN tasa.valor * Pow10(prec - d)
               ELSE RoundDivSigned(tasa.valor, Pow10(d - prec))
        pct_str == rstrip_char(rstrip_char(float_repr(pct, prec), "0"), ".")
    IN  IF tasa.tipo = EFECTIVA
        THEN Ok(pct_str \o <<"%", " ">> \o inv_eff(tasa.periodo))
        ELSE IF The(tasa.periodo_nominal) \notin inv_p_keys \/ tasa.periodo \notin inv_p_keys
        THEN Err("KeyError")
        ELSE Ok(pct_str \o <<"%", " ", "N", inv_p(The(tasa.periodo_nominal)), "/",
                            inv_p(tasa.periodo), IF tasa.es_anticipada THEN "A" ELSE "V">>)

---------------------------------------------------------------------------
(* convertidor.py: the conversion engine (Convertidor(precision)) *)

\* Convertidor.cambiar_temporalidad_en_efectivo(tasa, nuevo_periodo)
cambiar_temporalidad_en_efectivo(tasa, nuevo_periodo, dec) ==
    IF tasa.tipo # EFECTIVA THEN Err("ValueError")
    ELSE IF nuevo_periodo <= 0 THEN Err("ValueError")
    ELSE IF tasa.periodo = nuevo_periodo
    THEN TasaInteres(RoundDivSigned(tasa.valor, Pow10(dec - precision)), tasa.periodo,
                     Some(EFECTIVA), tasa.es_anticipada, None)
    ELSE TasaInteres(Potencia(tasa.valor, nuevo_periodo, tasa.periodo, dec),
                     nuevo_periodo, Some(EFECTIVA), FALSE, None)

\* Convertidor.nominal_a_efectiva_periodica(tasa)
nominal_a_efectiva_periodica(tasa, dec) ==
    IF tasa.tipo # NOMINAL THEN Err("ValueError")
    ELSE
        LET pn == The(tasa.periodo_nominal)
            \* n = periodo_nominal / periodo; i_periodica = valor / n = num / pn
            num == tasa.valor * tasa.periodo
        IN  IF pn <= 0 THEN Err("ValueError")
            ELSE IF tasa.es_anticipada
            THEN IF num >= pn * Pow10(dec) THEN Err("ValueError")
                 ELSE TasaInteres(RoundQuot(num, pn * Pow10(dec) - num), tasa.periodo,
                                  Some(EFECTIVA), FALSE, None)
            ELSE TasaInteres(RoundDivSigned(num, pn * Pow10(dec - precision)), tasa.periodo,
                             Some(EFECTIVA), FALSE, None)

\* A mutation of efectiva_periodica_a_nominal: an anticipated rate is re-nominalised
\* as a due one (d = i instead of d = i / (1 + i)).
efectiva_periodica_a_nominal_sin_descuento(tasa, periodo_nominal, periodo_capitalizacion, es_anticipada, dec) ==
    IF tasa.tipo # EFECTIVA THEN Err("ValueError")
    ELSE IF periodo_capitalizacion = 0 THEN Err("ZeroDivisionError")
    ELSE IF periodo_nominal = 0 \/ (periodo_nominal < 0) # (periodo_capitalizacion < 0)
    THEN Err("ValueError")
    ELSE
        LET pn == IF periodo_nominal < 0 THEN -periodo_nominal ELSE periodo_nominal
            pc == IF periodo_capitalizacion < 0 THEN -periodo_capitalizacion
                  ELSE periodo_capitalizacion
        IN  TasaInteres(RoundDivSigned(tasa.valor * pn, pc * Pow10(dec - precision)),
                        periodo_capitalizacion, Some(NOMINAL), es_anticipada,
                        Some(periodo_nominal))

\* Convertidor.efectiva_periodica_a_nominal(tasa, periodo_nominal,
\* periodo_capitalizacion, es_anticipada).  n = periodo_nominal / periodo_capitalizacion
\* divides by zero for periodo_capitalizacion = 0, and is <= 0 when periodo_nominal is
\* 0 or the two periods have opposite signs
efectiva_periodica_a_nominal(tasa, periodo_nominal, periodo_capitalizacion, es_anticipada, dec) ==
    IF tasa.tipo # EFECTIVA THEN Err("ValueError")
    ELSE IF periodo_capitalizacion = 0 THEN Err("ZeroDivisionError")
    ELSE IF periodo_nominal = 0 \/ (periodo_nominal < 0) # (periodo_capitalizacion < 0)
    THEN Err("ValueError")
    ELSE
        LET pn == IF periodo_nominal < 0 THEN -periodo_nominal ELSE periodo_nominal
            pc == IF periodo_capitalizacion < 0 THEN -periodo_capitalizacion
                  ELSE periodo_capitalizacion
            \* vencida: nom = i * n; anticipada: d = i / (1 + i), nom = d * n
            \* (a nominal value of -1 or less is rejected by the constructor whatever
            \* it is, and is not computed: it may be too large to hold)
            nom == IF es_anticipada
                   THEN IF tasa.valor * pn <= -((Pow10(dec) + tasa.valor) * pc) THEN -Escala
                        ELSE RoundQuot(tasa.valor * pn, (Pow10(dec) + tasa.valor) * pc)
                   ELSE RoundDivSigned(tasa.valor * pn, pc * Pow10(dec - precision))
        IN  TasaInteres(nom, periodo_capitalizacion, Some(NOMINAL), es_anticipada,
                        Some(periodo_nominal))

\* A mutation of cambiar_frecuencia: a nominal rate is re-periodised directly, keeping
\* its value.
cambiar_frecuencia_directa(tasa, nuevo_periodo, dec) ==
    IF nuevo_periodo <= 0 THEN Err("ValueError")
    ELSE IF tasa.tipo = EFECTIVA THEN cambiar_temporalidad_en_efectivo(tasa, nuevo_periodo, dec)
    ELSE TasaInteres(RoundDivSigned(tasa.valor, Pow10(dec - precision)), nuevo_periodo,
                     Some(NOMINAL), tasa.es_anticipada, tasa.periodo_nominal)

\* Convertidor.cambiar_frecuencia(tasa, nuevo_periodo); what the engine returns on the
\* way is in millionths
cambiar_frecuencia(tasa, nuevo_periodo, dec) ==
    IF nuevo_periodo <= 0 THEN Err("ValueError")
    ELSE IF tasa.tipo = EFECTIVA THEN cambiar_temporalidad_en_efectivo(tasa, nuevo_periodo, dec)
    ELSE LET i_actual == nominal_a_efectiva_periodica(tasa, dec)
         IN  IF ~i_actual.ok THEN i_actual
             ELSE LET i_nuevo == cambiar_temporalidad_en_efectivo(i_actual.val, nuevo_periodo,
                                                                  precision)
                  IN  IF ~i_nuevo.ok THEN i_nuevo
                      ELSE efectiva_periodica_a_nominal(i_nuevo.val, The(tasa.periodo_nominal),
                                                        nuevo_periodo, tasa.es_anticipada,
                                                        precision)

\* A mutation of tasa_a_ea_std: the periodic rate is returned without annualising it.
tasa_a_ea_std_sin_anualizar(tasa, dec) ==
    IF tasa.tipo = EFECTIVA THEN Ok(tasa.valor)
    ELSE LET i_periodica == nominal_a_efectiva_periodica(tasa, dec)
         IN  IF i_periodica.ok THEN Ok(i_periodica.val.valor) ELSE i_periodica

\* Convertidor.tasa_a_ea_std(tasa): the EA value, or the error raised on the way
tasa_a_ea_std(tasa, dec) ==
    IF tasa.tipo = EFECTIVA
    THEN LET r == cambiar_temporalidad_en_efectivo(tasa, 12, dec)
         IN  IF r.ok THEN Ok(r.val.valor) ELSE r
    ELSE LET i_periodica == nominal_a_efectiva_periodica(tasa, dec)
         IN  IF ~i_periodica.ok THEN i_periodica
             ELSE LET r == cambiar_temporalidad_en_efectivo(i_periodica.val, 12, precision)
                  IN  IF r.ok THEN Ok(r.val.valor) ELSE r

---------------------------------------------------------------------------
(* calculador.py: Calculador(precision) *)

\* A Python argument that need not be a number: its type and, for a number, its value
\* (an amount in cents, a count as it is; of a float count only the type is read)
Py(tipo, v) == [tipo |-> tipo, v |-> v]
isinstance_int_float(x) == x.tipo \in {"int", "float"}
isinstance_int(x) == x.tipo = "int"

\* round(num / den) to the nearest integer for big naturals num, den > 0, known to lie
\* in lo..hi: the largest c with (2c - 1) * den <= 2 * num
RECURSIVE RoundBigQuot(_, _, _, _)
RoundBigQuot(num, den, lo, hi) ==
    IF hi - lo <= 1
    THEN IF LeqBig(MulSmall(den, 2 * hi - 1, 0), MulSmall(num, 2, 0)) THEN hi ELSE lo
    ELSE LET mid == (lo + hi) \div 2
         IN  IF LeqBig(MulSmall(den, 2 * mid - 1, 0), MulSmall(num, 2, 0))
             THEN RoundBigQuot(num, den, mid, hi)
             ELSE RoundBigQuot(num, den, lo, mid)

\* x - y for big naturals x >= y
RECURSIVE SubBig(_, _, _)
SubBig(x, y, borrow) ==
    IF x = <<>> THEN <<>>
    ELSE LET t == Head(x) - (IF y = <<>> THEN 0 ELSE Head(y)) - borrow
         IN  <<(t + Base) % Base>> \o SubBig(Tail(x), IF y = <<>> THEN <<>> ELSE Tail(y),
                                              IF t < 0 THEN 1 ELSE 0)

\* A mutation of tasa_periodica: an anticipated rate is taken as a due one.
tasa_periodica_sin_anticipo(tasa, dec) ==
    IF tasa = None THEN Err("AttributeError")
    ELSE LET t == The(tasa)
         IN  IF t.valor <= -Pow10(dec) THEN Err("ValueError")
             ELSE IF t.tipo = EFECTIVA THEN Ok(RoundQuot(t.valor, Pow10(dec)))
             ELSE Ok(RoundQuot(t.valor * t.periodo, The(t.periodo_nominal) * Pow10(dec)))

\* Calculador.tasa_periodica(tasa): the periodic effective, due value in millionths, or
\* the error raised.  `tasa` is None for an argument that is not a TasaInteres (reading
\* its .valor raises AttributeError); its value is in units of 10^-dec
tasa_periodica(tasa, dec) ==
    IF tasa = None THEN Err("AttributeError")
    ELSE
        LET t == The(tasa)
            nominal == t.tipo = NOMINAL
        IN  IF t.valor <= -Pow10(dec) THEN Err("ValueError")
            ELSE IF t.tipo \notin {EFECTIVA, NOMINAL} THEN Err("ValueError")
            ELSE IF nominal /\ t.periodo_nominal = None THEN Err("ValueError")
            ELSE IF nominal /\ (The(t.periodo_nominal) <= 0 \/ t.periodo <= 0)
            THEN Err("ValueError")
            ELSE
                \* i = valor, or valor / m with m = periodo_nominal / periodo: num / den
                LET num == IF nominal THEN t.valor * t.periodo ELSE t.valor
                    den == IF nominal THEN The(t.periodo_nominal) * Pow10(dec) ELSE Pow10(dec)
                IN  IF t.es_anticipada
                    THEN IF num >= den THEN Err("ValueError")
                         ELSE Ok(RoundQuot(num, den - num))
                    ELSE Ok(RoundQuot(num, den))

\* A mutation of validar_monto_plazos: both types are tested before either value.
validar_monto_plazos_tipos_primero(monto, plazos) ==
    IF ~isinstance_int_float(monto) THEN Err("TypeError")
    ELSE IF ~isinstance_int(plazos) THEN Err("TypeError")
    ELSE IF monto.v < 0 THEN Err("ValueError")
    ELSE IF plazos.v <= 0 THEN Err("ValueError")
    ELSE Ok(None)

\* Calculador.validar_monto_plazos(monto, plazos): the error raised, or Ok(None)
validar_monto_plazos(monto, plazos) ==
    IF ~isinstance_int_float(monto) THEN Err("TypeError")
    ELSE IF monto.v < 0 THEN Err("ValueError")
    ELSE IF ~isinstance_int(plazos) THEN Err("TypeError")
    ELSE IF plazos.v <= 0 THEN Err("ValueError")
    ELSE Ok(None)

\* round(monto * i / (1 - (1 + i) ** (-plazos)), 2) in cents, for i = k millionths,
\* k # 0, k > -Escala: monto * |k| * (E + k)^n / (E * |(E + k)^n - E^n|)
cuota(centavos, k, plazos) ==
    LET crece == PowNat(Escala + k, plazos)
        uno == PowNat(Escala, plazos)
        num == MulBig(crece, MulBig(IntToBig(centavos), IntToBig(Abs(k))))
        den == ShiftLimbs(IF k > 0 THEN SubBig(crece, uno, 0) ELSE SubBig(uno, crece, 0),
                          LimbsPorEscala)
    IN  RoundBigQuot(num, den, 0, centavos * (2 + Abs(k) \div Escala) + 1)

\* Calculador.calcular_cuota_fija(monto, tasa, plazos): the outcome (the installment in
\* cents, or the error raised) and the methods gone through
calcular_cuota_fija(monto, tasa, plazos, dec) ==
    LET v == validar_monto_plazos(monto, plazos)
    IN  IF ~v.ok THEN [res |-> v, traza |-> <<"validar_monto_plazos">>]
        ELSE
            LET i == tasa_periodica(tasa, dec)
                res == IF ~i.ok THEN i
                       ELSE IF i.val = 0 THEN Ok(RoundDiv(monto.v, plazos.v))
                       \* (1 + i) ** (-plazos) with 1 + i = 0.0
                       ELSE IF i.val = -Escala THEN Err("ZeroDivisionError")
                       ELSE Ok(cuota(monto.v, i.val, plazos.v))
            IN  [res |-> res, traza |-> <<"validar_monto_plazos", "tasa_periodica">>]

---------------------------------------------------------------------------
(* comparador.py: Comparador *)

MaxOpciones == 3        \* longest lista_opciones explored

Texto24NAMV == <<"2", "4", "%", " ", "N", "A", "/", "M", "V">>
Texto2MV == <<"2", "%", " ", "M", "V">>
Texto30NAMV == <<"3", "0", "%", " ", "N", "A", "/", "M", "V">>
Texto10EA == <<"1", "0", "%", " ", "E", "A">>

\* The options of the demo (comparador.py, __main__), one option without "nombre"
\* and one whose "tasa" is not a TasaInteres
BancoA == [nombre |-> Some("Banco A"), tasa |-> Some(from_string(Str(Texto24NAMV)).val)]
BancoB == [nombre |-> Some("Banco B"), tasa |-> Some(from_string(Str(Texto2MV)).val)]
BancoC == [nombre |-> Some("Banco C"), tasa |-> Some(from_string(Str(Texto30NAMV)).val)]
SinNombre == [nombre |-> None, tasa |-> Some(from_string(Str(Texto10EA)).val)]
SinTasa == [nombre |-> Some("Banco D"), tasa |-> None]
Opciones == {BancoA, BancoB, BancoC, SinNombre, SinTasa}

\* The lists explored: every list of distinct options up to MaxOpciones long, and
\* every list of one or two options (an option may appear twice)
Listas ==
    UNION {{l \in [1..n -> Opciones] : n <= 2 \/ \A i, j \in 1..n : i # j => l[i] # l[j]} :
             n \in 0..MaxOpciones}

\* A mutation of construir_filas: the loop stops at the first option whose "tasa" is not
\* a TasaInteres and the rows built so far are kept.
RECURSIVE construir_filas_parcial(_, _)
construir_filas_parcial(lista_opciones, filas) ==
    IF lista_opciones = <<>> THEN Ok(filas)
    ELSE
        LET opcion == Head(lista_opciones)
            nombre == IF opcion.nombre = None THEN "Sin nombre" ELSE The(opcion.nombre)
        IN  IF opcion.tasa = None THEN Ok(filas)
            ELSE LET ea == tasa_a_ea_std(The(opcion.tasa), precision)
                 IN  IF ~ea.ok THEN ea
                     ELSE construir_filas_parcial(Tail(lista_opciones),
                              Append(filas, [Nombre |-> nombre, EA |-> round(ea.val, 6)]))

\* The loop of both ranking methods: one {"Nombre", "EA"} row per option, or the error
\* raised at the first option that fails.  The rates of the options explored are held
\* in millionths
RECURSIVE construir_filas(_, _)
construir_filas(lista_opciones, filas) ==
    IF lista_opciones = <<>> THEN Ok(filas)
    ELSE
        LET opcion == Head(lista_opciones)
            nombre == IF opcion.nombre = None THEN "Sin nombre" ELSE The(opcion.nombre)
        IN  IF opcion.tasa = None THEN Err("ValueError")
            ELSE LET ea == tasa_a_ea_std(The(opcion.tasa), precision)
                 IN  IF ~ea.ok THEN ea
                     ELSE construir_filas(Tail(lista_opciones),
                              Append(filas, [Nombre |-> nombre, EA |-> round(ea.val, 6)]))

EnOrden(a, b, ascending) == IF ascending THEN a <= b ELSE a >= b

\* A mutation of sort_values: the `ascending` argument is ignored.
sort_values_siempre_ascendente(filas, ascending) ==
    IF filas = <<>> THEN {Err("KeyError")}
    ELSE {Ok([k \in 1..Len(filas) |-> filas[p[k]]]) :
            p \in {q \in [1..Len(filas) -> 1..Len(filas)] :
                     /\ \A i, j \in 1..Len(filas) : i # j => q[i] # q[j]
                     /\ \A i \in 1..(Len(filas) - 1) : filas[q[i]].EA <= filas[q[i + 1]].EA}}

\* pd.DataFrame(filas).sort_values(by="EA", ascending=...).reset_index(drop=True):
\* every outcome the call can have.  A frame built from no rows has no "EA" column and
\* sort_values raises KeyError.  The default kind="quicksort" is not a stable sort, so
\* rows of equal EA come out in an order the call does not fix.
sort_values(filas, ascending) ==
    IF filas = <<>> THEN {Err("KeyError")}
    ELSE {Ok([k \in 1..Len(filas) |-> filas[p[k]]]) :
            p \in {q \in [1..Len(filas) -> 1..Len(filas)] :
                     /\ \A i, j \in 1..Len(filas) : i # j => q[i] # q[j]
                     /\ \A i \in 1..(Len(filas) - 1) :
                            EnOrden(filas[q[i]].EA, filas[q[i + 1]].EA, ascending)}}

\* df["Ranking"] = range(1, len(df) + 1)
con_ranking(df) ==
    [k \in 1..Len(df) |-> [Nombre |-> df[k].Nombre, EA |-> df[k].EA, Ranking |-> k]]

\* The outcomes of a ranking call: the table it returns, or the error it raises
comparar(lista_opciones, ascending) ==
    LET f == construir_filas(lista_opciones, <<>>)
    IN  IF ~f.ok THEN {f}
        ELSE {IF d.ok THEN Ok(con_ranking(d.val)) ELSE d : d \in sort_values(f.val, ascending)}

\* A mutation of mejor_opcion: the last row is returned (iloc[-1]).
mejor_opcion_ultima_fila(r) ==
    IF r = None \/ The(r) = <<>> THEN Ok(None) ELSE Ok(Some(The(r)[Len(The(r))]))

\* Comparador.mejor_opcion() on the retained ranking r
mejor_opcion(r) ==
    IF r = None \/ The(r) = <<>> THEN Ok(None) ELSE Ok(Some(The(r)[1]))

\* Comparador.comparar_escenarios(lista_opciones).  self.ranking is assigned only
\* when the call reaches its last lines; an error raised before leaves it as it was
ComparaEscenarios ==
    \E lista \in Listas :
        \E out \in comparar(lista, TRUE) :
            /\ op' = "comparar_escenarios"
            /\ entrada' = lista
            /\ salida' = out
            /\ ranking' = IF out.ok THEN Some(out.val) ELSE ranking
            /\ ultima' = IF out.ok THEN Some(out.val) ELSE ultima
            /\ UNCHANGED fueraCmp

\* Comparador.comparar_mejor_rentabilidad(lista_opciones): the same, descending
ComparaMejorRentabilidad ==
    \E lista \in Listas :
        \E out \in comparar(lista, FALSE) :
            /\ op' = "comparar_mejor_rentabilidad"
            /\ entrada' = lista
            /\ salida' = out
            /\ ranking' = IF out.ok THEN Some(out.val) ELSE ranking
            /\ ultima' = IF out.ok THEN Some(out.val) ELSE ultima
            /\ UNCHANGED fueraCmp

\* Comparador.mejor_opcion()
MejorOpcion ==
    /\ op' = "mejor_opcion"
    /\ entrada' = <<>>
    /\ salida' = mejor_opcion(ranking)
    /\ UNCHANGED <<ranking, ultima, fueraCmp>>

---------------------------------------------------------------------------
(* estandarizador.py: Estandarizador(precision, money_round) *)

money_round == 2
DecimalesMonto == money_round + 1      \* a principal is held to one decimal more

\* Estandarizador.tasa_periodica_vencida(tasa): as Calculador.tasa_periodica, after a
\* test that `tasa` is a TasaInteres
tasa_periodica_vencida(tasa, dec) ==
    IF tasa = None THEN Err("TypeError")
    ELSE
        LET t == The(tasa)
            nominal == t.tipo = NOMINAL
        IN  IF t.valor <= -Pow10(dec) THEN Err("ValueError")
            ELSE IF t.tipo \notin {EFECTIVA, NOMINAL} THEN Err("ValueError")
            ELSE IF nominal /\ t.periodo_nominal = None THEN Err("ValueError")
            ELSE IF nominal /\ (The(t.periodo_nominal) <= 0 \/ t.periodo <= 0)
            THEN Err("ValueError")
            ELSE
                LET num == IF nominal THEN t.valor * t.periodo ELSE t.valor
                    den == IF nominal THEN The(t.periodo_nominal) * Pow10(dec) ELSE Pow10(dec)
                IN  IF t.es_anticipada
                    THEN IF num >= den THEN Err("ValueError")
                         ELSE Ok(RoundQuot(num, den - num))
                    ELSE Ok(RoundQuot(num, den))

\* Estandarizador.validar_monto_periodos(valor, periodos)
validar_monto_periodos(valor, periodos) ==
    IF ~isinstance_int_float(valor) THEN Err("TypeError")
    ELSE IF valor.v < 0 THEN Err("ValueError")
    ELSE IF ~isinstance_int(periodos) THEN Err("TypeError")
    ELSE IF periodos.v < 0 THEN Err("ValueError")
    ELSE Ok(None)

\* round(float(principal) * (1 + i * t), money_round) in cents, principal in units of
\* 10^-DecimalesMonto, i = k millionths
valor_simple(principal, k, t) ==
    LET f == Escala + k * t
        m == RoundShift(MulSmall(MulBig(IntToBig(principal), IntToBig(Abs(f))),
                                 Pow10(3 - (DecimalesMonto - money_round)), 0),
                        LimbsPorEscala + 1)
    IN  IF f < 0 THEN -m ELSE m

\* round(float(principal) * ((1 + i) ** t), money_round) in cents
valor_compuesto(principal, k, t) ==
    RoundShift(MulSmall(MulBig(IntToBig(principal), PowNat(Escala + k, t)),
                        Pow10(3 - (DecimalesMonto - money_round)), 0),
               LimbsPorEscala * t + 1)

\* A mutation of graficador_interes_simple: the series starts at period 1.
graficador_interes_simple_desde_uno(principal, tasa, periodos, dec) ==
    LET v == validar_monto_periodos(principal, periodos)
        i == tasa_periodica_vencida(tasa, dec)
    IN  IF ~v.ok THEN v
        ELSE IF ~i.ok THEN i
        ELSE Ok([n \in 1..periodos.v |->
                   [Periodo |-> n, Valor |-> valor_simple(principal.v, i.val, n)]])

\* Estandarizador.graficador_interes_simple(principal, tasa, periodos): the rows of the
\* frame returned (row n is for t = n - 1), or the error raised
graficador_interes_simple(principal, tasa, periodos, dec) ==
    LET v == validar_monto_periodos(principal, periodos)
        i == tasa_periodica_vencida(tasa, dec)
    IN  IF ~v.ok THEN v
        ELSE IF ~i.ok THEN i
        ELSE Ok([n \in 1..(periodos.v + 1) |->
                   [Periodo |-> n - 1, Valor |-> valor_simple(principal.v, i.val, n - 1)]])

\* Estandarizador.graficador_interes_compuesto(principal, tasa, periodos)
graficador_interes_compuesto(principal, tasa, periodos, dec) ==
    LET v == validar_monto_periodos(principal, periodos)
        i == tasa_periodica_vencida(tasa, dec)
    IN  IF ~v.ok THEN v
        ELSE IF ~i.ok THEN i
        ELSE Ok([n \in 1..(periodos.v + 1) |->
                   [Periodo |-> n - 1, Valor |-> valor_compuesto(principal.v, i.val, n - 1)]])

\* Estandarizador.estandarizar_lista_a_ea(opciones): the {"Nombre", "EA"} rows of the
\* frame, or the error raised at the first option that fails
RECURSIVE estandarizar_lista_a_ea(_, _)
estandarizar_lista_a_ea(opciones, filas) ==
    IF opciones = <<>> THEN Ok(filas)
    ELSE
        LET opcion == Head(opciones)
            nombre == IF opcion.nombre = None THEN "Sin nombre" ELSE The(opcion.nombre)
        IN  IF opcion.tasa = None THEN Err("ValueError")
            ELSE LET ea == tasa_a_ea_std(The(opcion.tasa), precision)
                 IN  IF ~ea.ok THEN ea
                     ELSE estandarizar_lista_a_ea(Tail(opciones),
                              Append(filas, [Nombre |-> nombre, EA |-> round(ea.val, precision)]))

\* A mutation of mostrar_mejor_tasa_de_interes: the rows are sorted ascending whatever
\* the mode.
mostrar_mejor_tasa_de_interes_sin_modo(opciones, modo) ==
    IF modo \notin {"credito", "inversion"} THEN {Err("ValueError")}
    ELSE IF opciones = <<>> THEN {Ok(None)}
    ELSE LET df == estandarizar_lista_a_ea(opciones, <<>>)
         IN  IF ~df.ok THEN {df}
             ELSE {IF d.ok THEN Ok(Some(d.val[1])) ELSE d : d \in sort_values(df.val, TRUE)}

\* Estandarizador.mostrar_mejor_tasa_de_interes(opciones, modo): every outcome the call
\* can have (sort_values does not fix the order of rows of equal EA): the
\* {"Nombre", "EA"} dict of the first row, None, or the error raised
mostrar_mejor_tasa_de_interes(opciones, modo) ==
    IF modo \notin {"credito", "inversion"} THEN {Err("ValueError")}
    ELSE IF opciones = <<>> THEN {Ok(None)}
    ELSE LET df == estandarizar_lista_a_ea(opciones, <<>>)
         IN  IF ~df.ok THEN {df}
             ELSE {IF d.ok THEN Ok(Some(d.val[1])) ELSE d :
                     d \in sort_values(df.val, modo = "credito")}

\* A mutation of asignar_ranking: ranking is an attribute of the class, shared by every
\* instance.
asignar_ranking_de_clase(rankings, a, df) == [b \in DOMAIN rankings |-> Some(df)]

\* self.ranking = df on instance a: an attribute of that instance (set in __init__)
asignar_ranking(rankings, a, df) == [rankings EXCEPT ![a] = Some(df)]

\* Values of the variables a specification does not use
CtorIdle == ctor_args = <<>> /\ ctor_res = None
ParseIdle == texto = NoStr /\ parse_res = None
IdaIdle == cadena = None /\ vuelta = None
ConvIdle == conv_op = "-" /\ conv_args = <<>> /\ conv_res = Ok(None) /\ conv_origen = None
CmpIdle == ranking = None /\ op = "init" /\ entrada = <<>> /\ salida = Ok(None) /\ ultima = None
Hilos == {1, 2}
Instancias == {"A", "B"}
HiloIdle ==
    /\ hilo_pc = [h \in Hilos |-> "inicio"]
    /\ hilo_tabla = [h \in Hilos |-> None]
    /\ hilo_mejor = [h \in Hilos |-> None]
    /\ hilo_origen = [h \in Hilos |-> None]
    /\ ultimo_hilo = None
InstIdle ==
    /\ inst_ranking = [a \in Instancias |-> None]
    /\ inst_op = [inst |-> "-", op |-> "init", res |-> Ok(None)]
    /\ inst_ultima = [a \in Instancias |-> None]
CalcIdle == calc_op = "-" /\ calc_args = <<>> /\ calc_res = Ok(None) /\ calc_traza = <<>>

\* Comparador.__init__
Init == CmpIdle /\ CtorIdle /\ ParseIdle /\ IdaIdle /\ ConvIdle /\ CalcIdle /\ HiloIdle /\ InstIdle

Next == ComparaEscenarios \/ ComparaMejorRentabilidad \/ MejorOpcion

Spec == Init /\ [][Next]_vars

---------------------------------------------------------------------------
(* Constructions of a rate value: SpecRate *)

MaxPeriodo == 12        \* largest periodo / periodo_nominal argument explored

ValoresArg == {-Escala - 1, -Escala, 1 - Escala, 0, 240000}
PeriodosArg == -1..MaxPeriodo
TiposArg ==
    {None, Some(<<>>), Some(EFECTIVA), Some(NOMINAL), Some(upper(EFECTIVA)),
     Some(<<" ", "N", "o", "m", "i", "n", "a", "l", "\n">>), Some(<<"n", "o", "m">>)}
CtorArgs ==
    [valor : ValoresArg, periodo : PeriodosArg, tipo : TiposArg,
     es_anticipada : BOOLEAN, periodo_nominal : {None} \cup {Some(p) : p \in PeriodosArg}]

InitRate == CmpIdle /\ ParseIdle /\ IdaIdle /\ ConvIdle /\ CalcIdle /\ HiloIdle /\ InstIdle /\ ctor_args \in CtorArgs /\ ctor_res = None

\* TasaInteres(valor=..., periodo=..., tipo=..., es_anticipada=..., periodo_nominal=...)
Construir ==
    /\ ctor_res = None
    /\ ctor_res' = Some(TasaInteres(ctor_args.valor, ctor_args.periodo, ctor_args.tipo,
                                    ctor_args.es_anticipada, ctor_args.periodo_nominal))
    /\ UNCHANGED <<ctor_args, fueraCtor>>

NextRate == Construir

SpecRate == InitRate /\ [][NextRate]_vars

---------------------------------------------------------------------------
(* Calls of from_string: SpecParse *)

MaxTexto == 3           \* longest text of the free alphabet explored

Porcentajes ==
    {<<"2", "4">>, <<"6">>, <<"1", ".", "5">>, <<"0", ",", "2", "5">>,
     <<>>, <<".", "5">>, <<"2", "4", ".">>, <<"-", "1">>}
Signos == {<<"%">>, <<>>, <<"%", " ">>, <<" ", "%", "\t">>}
LetrasNominal == {"M", "T", "S", "A", "E"}
SufijosNominal ==
    {<<n, p1, "/", p2, x>> :
        n \in {"N", "n"}, p1 \in LetrasNominal, p2 \in LetrasNominal, x \in {"V", "A", "v", "E"}}
LetrasEfectiva == {"M", "T", "S", "E", "A", "V", "e", "a"}
SufijosEfectiva == {<<a, b>> : a \in LetrasEfectiva, b \in LetrasEfectiva}
SufijosOtros ==
    {<<>>, <<"E", "A", "A">>, <<"N", "A", "/", "M", "V", "V">>, <<"N", "A", "M", "V">>,
     <<"E", " ", "A">>, <<"N", "A", " ", "/", " ", "M", "A", "\n">>}
Sufijos == SufijosNominal \cup SufijosEfectiva \cup SufijosOtros
AlfabetoLibre == {"5", "%", "E", "A", " "}
TextosLibres == UNION {[1..n -> AlfabetoLibre] : n \in 0..MaxTexto}
Textos ==
    {p \o g \o x : p \in Porcentajes, g \in Signos, x \in Sufijos}
        \cup {<<"\t">> \o p \o <<"%">> \o x : p \in Porcentajes, x \in SufijosOtros}
        \cup TextosLibres

InitParse ==
    CmpIdle /\ CtorIdle /\ IdaIdle /\ ConvIdle /\ CalcIdle /\ HiloIdle /\ InstIdle /\ texto \in {Str(t) : t \in Textos} \cup {NoStr} /\ parse_res = None

\* TasaInteres.from_string(text)
Parsear ==
    /\ parse_res = None
    /\ parse_res' = Some(from_string(texto))
    /\ UNCHANGED <<texto, fueraParse>>

NextParse == Parsear

SpecParse == InitParse /\ [][NextParse]_vars

---------------------------------------------------------------------------
(* A text parsed, written back and parsed again: SpecIda *)

MaxCeros == 4           \* most zeros between the decimal point and the first digit

\* The parsed value is held to three places beyond the engine's precision, one more
\* than to_string's rounding of the percentage keeps
DecimalesTexto == precision + 3

Ceros(z) == [j \in 1..z |-> "0"]
PorcentajesIda ==
    {<<"0", ".">> \o Ceros(z) \o f : z \in 0..MaxCeros, f \in {<<"1">>, <<"9", "9">>}}
        \cup {<<"2", "4">>, <<"0">>, <<"1", ",", "5">>, <<"1", "0", "0">>,
              <<"1", ".", "2", "3", "4", "5", "6", "7", "8">>, <<"0", ".", "0", "0", "0", "1">>}
SufijosIda ==
    {<<"N", p1, "/", p2, x>> : p1 \in LetrasPeriodo, p2 \in LetrasPeriodo, x \in {"V", "A"}}
        \cup CodigosEfectivos
TextosIda ==
    {p \o g \o x : p \in PorcentajesIda, g \in {<<"%">>, <<"%", " ">>, <<>>}, x \in SufijosIda}
        \cup {lower(p \o <<" ", "%">> \o x) : p \in PorcentajesIda, x \in SufijosIda}

InitIda ==
    /\ CmpIdle /\ CtorIdle /\ IdaIdle /\ ConvIdle /\ CalcIdle /\ HiloIdle /\ InstIdle
    /\ texto \in {Str(t) : t \in TextosIda} /\ parse_res = None

\* tasa = TasaInteres.from_string(text)
Analizar ==
    /\ parse_res = None
    /\ parse_res' = Some(from_string_con(texto, DecimalesTexto))
    /\ UNCHANGED <<texto, idaVars, fueraIda>>

\* s = tasa.to_string()
Serializar ==
    /\ parse_res # None /\ The(parse_res).ok
    /\ cadena = None
    /\ cadena' = Some(to_string(The(parse_res).val, DecimalesTexto, to_string_precision))
    /\ UNCHANGED <<parseVars, vuelta, fueraIda>>

\* TasaInteres.from_string(s)
Releer ==
    /\ cadena # None /\ The(cadena).ok
    /\ vuelta = None
    /\ vuelta' = Some(from_string_con(Str(The(cadena).val), DecimalesTexto))
    /\ UNCHANGED <<parseVars, cadena, fueraIda>>

NextIda == Analizar \/ Serializar \/ Releer

SpecIda == InitIda /\ [][NextIda]_vars

---------------------------------------------------------------------------
(* One call of the conversion engine, and the re-nominalisation of a periodic *)
(* effective rate it returned: SpecConv                                       *)

\* The rates passed to the engine are held to one decimal more than it rounds to
DecimalesEntrada == precision + 1
UnidadEntrada == Pow10(DecimalesEntrada)

\* -0.9999996, -0.9999991, -0.5, 0, 0.1, 0.24, 0.2400004 and 1
ValoresConv ==
    {4 - UnidadEntrada, 9 - UnidadEntrada, -5 * Escala, 0, Escala, 24 * Pow10(5),
     24 * Pow10(5) + 4, UnidadEntrada}
PeriodosConv == {1, 3, 6, 12}
\* Every rate value with these values and periods that the constructor accepts
TasasConv ==
    {t \in [valor : ValoresConv, periodo : PeriodosConv, tipo : {EFECTIVA, NOMINAL},
            es_anticipada : BOOLEAN,
            periodo_nominal : {None} \cup {Some(p) : p \in PeriodosConv}] :
        /\ post_init_error(t.valor, t.periodo, t.tipo, t.periodo_nominal, UnidadEntrada) = "-"
        /\ t.tipo = EFECTIVA => t.periodo_nominal = None}
\* The rates whose periodicity or frequency is changed: -0.5, 0.2400004 and 1
TasasCambio == {t \in TasasConv : t.valor \in {-5 * Escala, 24 * Pow10(5) + 4, UnidadEntrada}}
\* The tasa arguments of efectiva_periodica_a_nominal: the due effective rates and one
\* nominal rate
TasasPeriodicas ==
    {t \in TasasConv : t.tipo = EFECTIVA /\ ~t.es_anticipada}
        \cup {t \in TasasConv : /\ t.tipo = NOMINAL /\ t.valor = 24 * Pow10(5) /\ t.periodo = 1
                                /\ t.periodo_nominal = Some(12) /\ ~t.es_anticipada}
\* The period arguments
PeriodosNuevos == {-1, 0} \cup PeriodosConv

\* (1 + i) ** (nuevo / actual) stays small enough for what follows to be held in 32 bits
EnRango(i, dec, nuevo, actual) ==
    \/ nuevo <= actual
    \/ 4 * i <= Pow10(dec)
    \/ i <= Pow10(dec) /\ nuevo <= 4 * actual
\* The same for the periodic rate of a nominal rate
EnRangoTasa(tasa, nuevo) ==
    IF tasa.tipo = EFECTIVA THEN EnRango(tasa.valor, DecimalesEntrada, nuevo, tasa.periodo)
    ELSE LET e == nominal_a_efectiva_periodica(tasa, DecimalesEntrada)
         IN  e.ok => EnRango(e.val.valor, precision, nuevo, tasa.periodo)

Args(tasa, nuevo_periodo, periodo_nominal, periodo_capitalizacion, es_anticipada) ==
    [tasa |-> tasa, nuevo_periodo |-> nuevo_periodo, periodo_nominal |-> periodo_nominal,
     periodo_capitalizacion |-> periodo_capitalizacion, es_anticipada |-> es_anticipada]

InitConv == CmpIdle /\ CtorIdle /\ ParseIdle /\ IdaIdle /\ ConvIdle /\ CalcIdle /\ HiloIdle /\ InstIdle

\* conv.cambiar_temporalidad_en_efectivo(tasa, nuevo_periodo)
CambiarTemporalidad ==
    /\ conv_op = "-"
    /\ \E tasa \in TasasCambio, nuevo \in PeriodosNuevos :
          /\ EnRango(tasa.valor, DecimalesEntrada, nuevo, tasa.periodo)
          /\ conv_op' = "cambiar_temporalidad_en_efectivo"
          /\ conv_args' = Args(tasa, nuevo, 0, 0, FALSE)
          /\ conv_res' = cambiar_temporalidad_en_efectivo(tasa, nuevo, DecimalesEntrada)
    /\ UNCHANGED <<conv_origen, fueraConv>>

\* conv.nominal_a_efectiva_periodica(tasa)
NominalAEfectiva ==
    /\ conv_op = "-"
    /\ \E tasa \in TasasConv :
          /\ conv_op' = "nominal_a_efectiva_periodica"
          /\ conv_args' = Args(tasa, 0, 0, 0, FALSE)
          /\ conv_res' = nominal_a_efectiva_periodica(tasa, DecimalesEntrada)
    /\ UNCHANGED <<conv_origen, fueraConv>>

\* conv.efectiva_periodica_a_nominal(tasa, periodo_nominal, periodo_capitalizacion,
\* es_anticipada)
EfectivaANominal ==
    /\ conv_op = "-"
    /\ \E tasa \in TasasPeriodicas, pn \in PeriodosNuevos, pc \in PeriodosNuevos,
          ant \in BOOLEAN :
          /\ conv_op' = "efectiva_periodica_a_nominal"
          /\ conv_args' = Args(tasa, 0, pn, pc, ant)
          /\ conv_res' = efectiva_periodica_a_nominal(tasa, pn, pc, ant, DecimalesEntrada)
    /\ UNCHANGED <<conv_origen, fueraConv>>

\* e = conv.nominal_a_efectiva_periodica(r) returned, and then
\* conv.efectiva_periodica_a_nominal(e, r.periodo_nominal, r.periodo, r.es_anticipada)
Renominalizar ==
    /\ conv_op = "nominal_a_efectiva_periodica"
    /\ conv_res.ok
    /\ LET r == conv_args.tasa
       IN  /\ conv_op' = "efectiva_periodica_a_nominal"
           /\ conv_args' = Args(conv_res.val, 0, The(r.periodo_nominal), r.periodo,
                                r.es_anticipada)
           /\ conv_res' = efectiva_periodica_a_nominal(conv_res.val, The(r.periodo_nominal),
                                                       r.periodo, r.es_anticipada, precision)
           /\ conv_origen' = Some(r)
    /\ UNCHANGED fueraConv

\* conv.cambiar_frecuencia(tasa, nuevo_periodo)
CambiarFrecuencia ==
    /\ conv_op = "-"
    /\ \E tasa \in TasasCambio, nuevo \in PeriodosNuevos :
          /\ EnRangoTasa(tasa, nuevo)
          /\ conv_op' = "cambiar_frecuencia"
          /\ conv_args' = Args(tasa, nuevo, 0, 0, FALSE)
          /\ conv_res' = cambiar_frecuencia(tasa, nuevo, DecimalesEntrada)
    /\ UNCHANGED <<conv_origen, fueraConv>>

NextConv ==
    \/ CambiarTemporalidad
    \/ NominalAEfectiva
    \/ EfectivaANominal
    \/ Renominalizar
    \/ CambiarFrecuencia

SpecConv == InitConv /\ [][NextConv]_vars

---------------------------------------------------------------------------
(* The Calculador: one call on arguments of several types and values *)

MaxPlazos == 5          \* largest number of periods explored

\* monto arguments: amounts in cents (-1, -0.5, 0, 100.5, 1000), a str and None
Montos ==
    {Py("int", -100), Py("float", -50), Py("int", 0), Py("float", 10050),
     Py("int", 100000), Py("str", 0), Py("NoneType", 0)}
\* plazos arguments: integers, a float, a str and None
Plazos ==
    {Py("int", n) : n \in -1..MaxPlazos} \cup {Py("float", 2), Py("str", 0), Py("NoneType", 0)}

Tasa(valor, periodo, tipo, es_anticipada, periodo_nominal) ==
    [valor |-> valor, periodo |-> periodo, tipo |-> tipo, es_anticipada |-> es_anticipada,
     periodo_nominal |-> periodo_nominal]
\* tasa arguments, values in units of 10^-DecimalesEntrada: 24% NA/MV, 2% MV, 0% EA,
\* 24% NA/MA, -6.6% NA/MV, 150% EA, 100% NA/AA (a discount of 1), an effective
\* -99.99996% that rounds to -100%, and an object that is not a TasaInteres
TasasCalc ==
    {Some(Tasa(24 * (UnidadEntrada \div 100), 1, NOMINAL, FALSE, Some(12))),
     Some(Tasa(2 * (UnidadEntrada \div 100), 1, EFECTIVA, FALSE, None)),
     Some(Tasa(0, 12, EFECTIVA, FALSE, None)),
     Some(Tasa(24 * (UnidadEntrada \div 100), 1, NOMINAL, TRUE, Some(12))),
     Some(Tasa(-66 * (UnidadEntrada \div 1000), 1, NOMINAL, FALSE, Some(12))),
     Some(Tasa(150 * (UnidadEntrada \div 100), 12, EFECTIVA, FALSE, None)),
     Some(Tasa(UnidadEntrada, 12, NOMINAL, TRUE, Some(12))),
     Some(Tasa(4 - UnidadEntrada, 12, EFECTIVA, FALSE, None)),
     None}

InitCalc == CmpIdle /\ CtorIdle /\ ParseIdle /\ IdaIdle /\ ConvIdle /\ CalcIdle /\ HiloIdle /\ InstIdle

\* calc.tasa_periodica(tasa)
TasaPeriodica ==
    /\ calc_op = "-"
    /\ \E tasa \in TasasCalc :
          /\ calc_op' = "tasa_periodica"
          /\ calc_args' = [tasa |-> tasa]
          /\ calc_res' = tasa_periodica(tasa, DecimalesEntrada)
          /\ calc_traza' = <<"tasa_periodica">>
    /\ UNCHANGED fueraCalc

\* calc.calcular_cuota_fija(monto, tasa, plazos)
CalcularCuotaFija ==
    /\ calc_op = "-"
    /\ \E monto \in Montos, tasa \in TasasCalc, plazos \in Plazos :
          LET r == calcular_cuota_fija(monto, tasa, plazos, DecimalesEntrada)
          IN  /\ calc_op' = "calcular_cuota_fija"
              /\ calc_args' = [monto |-> monto, tasa |-> tasa, plazos |-> plazos]
              /\ calc_res' = r.res
              /\ calc_traza' = r.traza
    /\ UNCHANGED fueraCalc

NextCalc == TasaPeriodica \/ CalcularCuotaFija

SpecCalc == InitCalc /\ [][NextCalc]_vars

---------------------------------------------------------------------------
(* The Estandarizador: one call on arguments of several types and values *)

\* principal arguments in units of 10^-DecimalesMonto: -1, -0.5, 0, 100.507, 1000, a
\* str and None
Principales ==
    {Py("int", -1000), Py("float", -500), Py("int", 0), Py("float", 100507),
     Py("int", 1000000), Py("str", 0), Py("NoneType", 0)}

InitEst == CmpIdle /\ CtorIdle /\ ParseIdle /\ IdaIdle /\ ConvIdle /\ CalcIdle /\ HiloIdle /\ InstIdle

\* est.graficador_interes_simple(principal, tasa, periodos)
GraficadorInteresSimple ==
    /\ calc_op = "-"
    /\ \E principal \in Principales, tasa \in TasasCalc, periodos \in Plazos :
          /\ calc_op' = "graficador_interes_simple"
          /\ calc_args' = [principal |-> principal, tasa |-> tasa, periodos |-> periodos]
          /\ calc_res' = graficador_interes_simple(principal, tasa, periodos, DecimalesEntrada)
          /\ calc_traza' = <<>>
    /\ UNCHANGED fueraCalc

\* est.graficador_interes_compuesto(principal, tasa, periodos)
GraficadorInteresCompuesto ==
    /\ calc_op = "-"
    /\ \E principal \in Principales, tasa \in TasasCalc, periodos \in Plazos :
          /\ calc_op' = "graficador_interes_compuesto"
          /\ calc_args' = [principal |-> principal, tasa |-> tasa, periodos |-> periodos]
          /\ calc_res' = graficador_interes_compuesto(principal, tasa, periodos,
                                                      DecimalesEntrada)
          /\ calc_traza' = <<>>
    /\ UNCHANGED fueraCalc

\* modo arguments: the two modes and two other strings
Modos == {"credito", "inversion", "ahorro", ""}

\* est.mostrar_mejor_tasa_de_interes(opciones, modo)
MostrarMejorTasa ==
    /\ calc_op = "-"
    /\ \E opciones \in Listas, modo \in Modos :
          \E out \in mostrar_mejor_tasa_de_interes(opciones, modo) :
              /\ calc_op' = "mostrar_mejor_tasa_de_interes"
              /\ calc_args' = [opciones |-> opciones, modo |-> modo]
              /\ calc_res' = out
              /\ calc_traza' = <<>>
    /\ UNCHANGED fueraCalc

NextEst == GraficadorInteresSimple \/ GraficadorInteresCompuesto \/ MostrarMejorTasa

SpecEst == InitEst /\ [][NextEst]_vars

---------------------------------------------------------------------------
(* Two callers share one Comparador: each makes a ranking call and then calls    *)
(* mejor_opcion, in any interleaving.  A ranking call works on locals until its  *)
(* one write, self.ranking = df, and mejor_opcion only reads self.ranking, which *)
(* once set is never None or empty again: each call takes effect at one point.   *)

MaxCompartida == 2      \* longest lista_opciones a caller passes

OpcionesCompartidas == {BancoA, BancoC, SinTasa}
ListasCompartidas == UNION {[1..n -> OpcionesCompartidas] : n \in 0..MaxCompartida}

\* The outcomes of the ranking calls on these lists (computed once)
RankingsCompartidos ==
    [lista \in ListasCompartidas, ascending \in BOOLEAN |-> comparar(lista, ascending)]

InitCompartido ==
    CmpIdle /\ CtorIdle /\ ParseIdle /\ IdaIdle /\ ConvIdle /\ CalcIdle /\ HiloIdle /\ InstIdle

\* Caller h: comp.comparar_escenarios(lista) or comp.comparar_mejor_rentabilidad(lista)
Rankear(h) ==
    /\ hilo_pc[h] = "inicio"
    /\ \E lista \in ListasCompartidas, ascending \in BOOLEAN :
          \E out \in RankingsCompartidos[lista, ascending] :
              /\ op' = IF ascending THEN "comparar_escenarios"
                                    ELSE "comparar_mejor_rentabilidad"
              /\ entrada' = lista
              /\ salida' = out
              /\ ranking' = IF out.ok THEN Some(out.val) ELSE ranking
              /\ ultima' = IF out.ok THEN Some(out.val) ELSE ultima
              /\ hilo_tabla' = [hilo_tabla EXCEPT ![h] = Some(out)]
              /\ ultimo_hilo' = IF out.ok THEN Some(h) ELSE ultimo_hilo
    /\ hilo_pc' = [hilo_pc EXCEPT ![h] = "rankeado"]
    /\ UNCHANGED <<hilo_mejor, hilo_origen, fueraHilo>>

\* Caller h: comp.mejor_opcion()
Leer(h) ==
    /\ hilo_pc[h] = "rankeado"
    /\ op' = "mejor_opcion"
    /\ entrada' = <<>>
    /\ salida' = mejor_opcion(ranking)
    /\ hilo_mejor' = [hilo_mejor EXCEPT ![h] = Some(mejor_opcion(ranking))]
    /\ hilo_origen' = [hilo_origen EXCEPT ![h] = ultimo_hilo]
    /\ hilo_pc' = [hilo_pc EXCEPT ![h] = "leido"]
    /\ UNCHANGED <<ranking, ultima, hilo_tabla, ultimo_hilo, fueraHilo>>

NextCompartido == \E h \in Hilos : Rankear(h) \/ Leer(h)

SpecCompartido == InitCompartido /\ [][NextCompartido]_vars

---------------------------------------------------------------------------
(* Several Comparador instances, called in any order *)

\* lista_opciones arguments: no option, one, or two in either order, some with an option
\* whose "tasa" is not a TasaInteres
ListasInstancias == {lista \in ListasCompartidas : Len(lista) <= 2}

\* The outcomes of the ranking calls on these lists (computed once)
RankingsInstancias ==
    [lista \in ListasInstancias, ascending \in BOOLEAN |-> comparar(lista, ascending)]

InitInstancias ==
    CmpIdle /\ CtorIdle /\ ParseIdle /\ IdaIdle /\ ConvIdle /\ CalcIdle /\ HiloIdle /\ InstIdle

\* a.comparar_escenarios(lista) or a.comparar_mejor_rentabilidad(lista)
RankearEn(a) ==
    /\ \E lista \in ListasInstancias, ascending \in BOOLEAN :
          \E out \in RankingsInstancias[lista, ascending] :
              /\ inst_op' = [inst |-> a,
                             op |-> IF ascending THEN "comparar_escenarios"
                                    ELSE "comparar_mejor_rentabilidad",
                             res |-> out]
              /\ inst_ranking' = IF out.ok THEN asignar_ranking(inst_ranking, a, out.val)
                                 ELSE inst_ranking
              /\ inst_ultima' = IF out.ok THEN [inst_ultima EXCEPT ![a] = Some(out.val)]
                                ELSE inst_ultima
    /\ UNCHANGED fueraInst

\* a.mejor_opcion()
MejorOpcionEn(a) ==
    /\ inst_op' = [inst |-> a, op |-> "mejor_opcion", res |-> mejor_opcion(inst_ranking[a])]
    /\ UNCHANGED <<inst_ranking, inst_ultima, fueraInst>>

NextInstancias == \E a \in Instancias : RankearEn(a) \/ MejorOpcionEn(a)

SpecInstancias == InitInstancias /\ [][NextInstancias]_vars

---------------------------------------------------------------------------
(* One rate value given both to Calculador.tasa_periodica and to the        *)
(* Convertidor's reduction of a nominal rate, at equal precision             *)

InitPeriodica ==
    CmpIdle /\ CtorIdle /\ ParseIdle /\ IdaIdle /\ ConvIdle /\ CalcIdle /\ HiloIdle /\ InstIdle

\* calc.tasa_periodica(tasa), on the rate the Convertidor was given if it was called
ExtraerPeriodica ==
    /\ calc_op = "-"
    /\ \E tasa \in TasasConv :
          /\ conv_op # "-" => tasa = conv_args.tasa
          /\ calc_op' = "tasa_periodica"
          /\ calc_args' = [tasa |-> Some(tasa)]
          /\ calc_res' = tasa_periodica(Some(tasa), DecimalesEntrada)
          /\ calc_traza' = <<"tasa_periodica">>
    /\ UNCHANGED fueraCalc

\* conv.nominal_a_efectiva_periodica(tasa), on the rate the Calculador was given if it
\* was called
ReducirNominal ==
    /\ conv_op = "-"
    /\ \E tasa \in TasasConv :
          /\ calc_op # "-" => Some(tasa) = calc_args.tasa
          /\ conv_op' = "nominal_a_efectiva_periodica"
          /\ conv_args' = Args(tasa, 0, 0, 0, FALSE)
          /\ conv_res' = nominal_a_efectiva_periodica(tasa, DecimalesEntrada)
    /\ UNCHANGED <<conv_origen, fueraConv>>

NextPeriodica == ExtraerPeriodica \/ ReducirNominal

SpecPeriodica == InitPeriodica /\ [][NextPeriodica]_vars

---------------------------------------------------------------------------
(* Properties of the Comparador (checked under Spec) *)

RankingOps == {"comparar_escenarios", "comparar_mejor_rentabilidad"}
\* An option is valid when its "tasa" is a rate value
Validas(lista) == \A k \in 1..Len(lista) : lista[k].tasa # None
NombreDe(opcion) == IF opcion.nombre = None THEN "Sin nombre" ELSE The(opcion.nombre)
NoDecreciente(df) == \A k \in 1..(Len(df) - 1) : df[k].EA <= df[k + 1].EA
NoCreciente(df) == \A k \in 1..(Len(df) - 1) : df[k].EA >= df[k + 1].EA

\* C1: mejor_opcion returns none while no ranking call has completed, and afterwards
\* the row with Ranking = 1 of the table the last completed ranking call returned.
C1_MejorOpcionUltimoRanking ==
    op = "mejor_opcion" =>
        IF ultima = None THEN salida = Ok(None)
        ELSE \E k \in 1..Len(The(ultima)) :
                /\ The(ultima)[k].Ranking = 1
                /\ salida = Ok(Some(The(ultima)[k]))

\* C1 witness: mejor_opcion answered after a completed investment ranking of several
\* options (Banco C, the highest EA, is its rank 1).
C1_Witness ==
    /\ op = "mejor_opcion"
    /\ ultima # None
    /\ salida.val # None
    /\ The(salida.val).Nombre = "Banco C"
    /\ The(salida.val).Ranking = 1
    /\ \E k \in 1..Len(The(ultima)) : The(ultima)[k].EA < The(salida.val).EA

\* C2: for a non-empty list of valid options, comparar_escenarios returns a table whose
\* EA column is non-decreasing and comparar_mejor_rentabilidad one whose EA column is
\* non-increasing.
C2_Monotonia ==
    (op \in RankingOps /\ entrada # <<>> /\ Validas(entrada)) =>
        /\ salida.ok
        /\ op = "comparar_escenarios" => NoDecreciente(salida.val)
        /\ op = "comparar_mejor_rentabilidad" => NoCreciente(salida.val)

\* C2 witness: an investment ranking of three options with different first and last EA.
C2_Witness ==
    /\ op = "comparar_mejor_rentabilidad"
    /\ Validas(entrada)
    /\ salida.ok
    /\ Len(salida.val) = 3
    /\ salida.val[1].EA > salida.val[3].EA

\* The rows are the input options with their EA, in some order, ranked 1..N
FilasPermutanEntrada(df, lista) ==
    /\ Len(df) = Len(lista)
    /\ \E p \in [1..Len(lista) -> 1..Len(lista)] :
          /\ \A i, j \in 1..Len(lista) : i # j => p[i] # p[j]
          /\ \A k \in 1..Len(lista) :
                /\ df[k].Nombre = NombreDe(lista[p[k]])
                /\ tasa_a_ea_std(The(lista[p[k]].tasa), precision) = Ok(df[k].EA)
    /\ \A k \in 1..Len(df) : df[k].Ranking = k

\* C3 (as stated): for every list of N valid options a ranking call returns exactly N
\* rows, a permutation of the input options with their EA, ranked 1, 2, ..., N.
C3_Original ==
    (op \in RankingOps /\ Validas(entrada)) =>
        salida.ok /\ FilasPermutanEntrada(salida.val, entrada)

\* C3, the part that holds: the same for every list of N >= 1 valid options.
C3_ListaNoVacia ==
    (op \in RankingOps /\ Validas(entrada) /\ entrada # <<>>) =>
        salida.ok /\ FilasPermutanEntrada(salida.val, entrada)

\* C4 (as stated): after a ranking call given an empty list the retained ranking is
\* empty, so that mejor_opcion returns none, whatever was ranked before.
C4_Original ==
    (op \in RankingOps /\ entrada = <<>>) => mejor_opcion(ranking) = Ok(None)

\* The stable sort of the claim: each row is inserted after the rows it does not precede
RECURSIVE InsertaEstable(_, _, _)
InsertaEstable(fila, orden, ascending) ==
    IF orden = <<>> THEN <<fila>>
    ELSE IF EnOrden(Head(orden).EA, fila.EA, ascending)
    THEN <<Head(orden)>> \o InsertaEstable(fila, Tail(orden), ascending)
    ELSE <<fila>> \o orden
RECURSIVE OrdenEstable(_, _)
OrdenEstable(filas, ascending) ==
    IF filas = <<>> THEN <<>>
    ELSE InsertaEstable(filas[Len(filas)],
                        OrdenEstable(SubSeq(filas, 1, Len(filas) - 1), ascending), ascending)

\* C5 (as stated): in both modes the ranked table is the stable sort of the rows, so
\* options of equal EA keep their input order.
C5_Original ==
    (op \in RankingOps /\ salida.ok) =>
        salida.val = con_ranking(OrdenEstable(construir_filas(entrada, <<>>).val,
                                              op = "comparar_escenarios"))

Ejemplo4 == <<BancoA, BancoB, BancoC>>
Nombres(df) == [k \in 1..Len(df) |-> df[k].Nombre]

\* C6 (as stated): ranking Example 4 for credit puts Banco B at rank 1, Banco A at
\* rank 2 and Banco C at rank 3.
C6_Original ==
    (op = "comparar_escenarios" /\ entrada = Ejemplo4 /\ salida.ok) =>
        Nombres(salida.val) = <<"Banco B", "Banco A", "Banco C">>

\* C6 (amended): ranking Example 4 for credit gives Banco A and Banco B the same EA,
\* 0.268242, so they take ranks 1 and 2 (their EA does not order them), and puts
\* Banco C, EA 0.344889, at rank 3.
C6_Ejemplo4 ==
    (op = "comparar_escenarios" /\ entrada = Ejemplo4) =>
        /\ salida.ok
        /\ Len(salida.val) = 3
        /\ {salida.val[1].Nombre, salida.val[2].Nombre} = {"Banco A", "Banco B"}
        /\ salida.val[1].EA = 268242 /\ salida.val[2].EA = 268242
        /\ salida.val[3] = [Nombre |-> "Banco C", EA |-> 344889, Ranking |-> 3]

\* C6 witness: Example 4 ranked for credit, with Banco A first.
C6_Witness ==
    /\ op = "comparar_escenarios"
    /\ entrada = Ejemplo4
    /\ salida.ok
    /\ salida.val[1].Nombre = "Banco A"

---------------------------------------------------------------------------
(* Properties of the rate value's construction (checked under SpecRate) *)

PeriodosEstandar == {1, 3, 6, 12}
Construida == ctor_res # None /\ The(ctor_res).ok
TasaConstruida == The(ctor_res).val

\* C7 (as stated): a construction whose period, or nominal_period when nominal, is not
\* one of 1, 3, 6, 12 fails, so every rate value has its periods in {1, 3, 6, 12}.
C7_Original ==
    Construida =>
        /\ TasaConstruida.periodo \in PeriodosEstandar
        /\ TasaConstruida.tipo = NOMINAL =>
              /\ TasaConstruida.periodo_nominal # None
              /\ The(TasaConstruida.periodo_nominal) \in PeriodosEstandar

\* The kind argument read without regard to case (and to the whitespace around it)
IgualSinCaja(a, b) ==
    Len(a) = Len(b) /\ \A k \in 1..Len(a) : UpperChar(a[k]) = UpperChar(b[k])
TipoEs(tipo, canon) == tipo # None /\ IgualSinCaja(strip(The(tipo)), canon)

\* What the claim calls a violation, on the arguments of the construction
ViolaInvariantes(a) ==
    \/ a.valor <= -Escala
    \/ ~TipoEs(a.tipo, EFECTIVA) /\ ~TipoEs(a.tipo, NOMINAL)
    \/ /\ TipoEs(a.tipo, NOMINAL)
       /\ \/ a.periodo_nominal = None
          \/ The(a.periodo_nominal) <= 0
          \/ The(a.periodo_nominal) < a.periodo

\* C8: every rate value that exists has value > -1, kind one of the two canonical
\* values (the kind argument is read case-insensitively) and, when nominal, a
\* nominal_period that is present, positive and >= period; a construction that violates
\* any of these fails with a validation error and yields no instance.
C8_InvariantesDeConstruccion ==
    ctor_res # None =>
        LET r == The(ctor_res)
            a == ctor_args
        IN  /\ r.ok =>
                /\ r.val.valor > -Escala
                /\ r.val.tipo \in {EFECTIVA, NOMINAL}
                /\ TipoEs(a.tipo, r.val.tipo)
                /\ r.val.tipo = NOMINAL =>
                      /\ r.val.periodo_nominal # None
                      /\ The(r.val.periodo_nominal) > 0
                      /\ The(r.val.periodo_nominal) >= r.val.periodo
                /\ r.val.valor = a.valor /\ r.val.periodo = a.periodo
                /\ r.val.es_anticipada = a.es_anticipada
                /\ r.val.periodo_nominal = a.periodo_nominal
            /\ ~r.ok => r.err = "ValueError" /\ r.val = None
            /\ ViolaInvariantes(a) => ~r.ok
            /\ (~ViolaInvariantes(a) /\ a.periodo > 0) => r.ok

\* C8 witness: a nominal rate built from a kind written in another case, with
\* nominal_period above period.
C8_Witness ==
    /\ Construida
    /\ TasaConstruida.tipo = NOMINAL
    /\ ctor_args.tipo # Some(NOMINAL)
    /\ The(TasaConstruida.periodo_nominal) > TasaConstruida.periodo

---------------------------------------------------------------------------
(* Properties of from_string (checked under SpecParse) *)

\* The grammar of the specification, written out: <percent> is digits with an optional
\* fraction after '.' or ','
Digitos(s) == \A k \in 1..Len(s) : IsDigit(s[k])
EsPorcentaje(s) ==
    \E n \in 1..Len(s) :
        /\ Digitos(SubSeq(s, 1, n))
        /\ \/ n = Len(s)
           \/ s[n + 1] \in {".", ","} /\ n + 1 < Len(s) /\ Digitos(SubSeq(s, n + 2, Len(s)))
EsSufijoNominal(s) ==
    /\ Len(s) = 5
    /\ s[1] = "N" /\ s[2] \in {"M", "T", "S", "A"} /\ s[3] = "/"
    /\ s[4] \in {"M", "T", "S", "A"} /\ s[5] \in {"V", "A"}
EsSufijoEfectivo(s) ==
    s \in {<<"M", "V">>, <<"T", "V">>, <<"S", "V">>, <<"E", "A">>, <<"A", "V">>}
Meses(c) == CASE c = "M" -> 1 [] c = "T" -> 3 [] c = "S" -> 6 [] c = "A" -> 12
MesesCodigo(s) == IF s \in {<<"E", "A">>, <<"A", "V">>} THEN 12 ELSE Meses(s[1])

\* <percent>%<suffix>, the '%' part of the pattern
EsNominalSpec(t) ==
    \E k \in 1..Len(t) :
        t[k] = "%" /\ EsPorcentaje(SubSeq(t, 1, k - 1)) /\ EsSufijoNominal(Drop(t, k))
EsEfectivaSpec(t) ==
    \E k \in 1..Len(t) :
        t[k] = "%" /\ EsPorcentaje(SubSeq(t, 1, k - 1)) /\ EsSufijoEfectivo(Drop(t, k))
\* <percent>[%]<suffix>, the '%' optional
EsNominalSignoOpcional(t) ==
    \E n \in 1..Len(t) :
        /\ EsPorcentaje(SubSeq(t, 1, n))
        /\ EsSufijoNominal(Drop(t, n)) \/ (Len(t) > n /\ t[n + 1] = "%" /\ EsSufijoNominal(Drop(t, n + 1)))
EsEfectivaSignoOpcional(t) ==
    \E n \in 1..Len(t) :
        /\ EsPorcentaje(SubSeq(t, 1, n))
        /\ EsSufijoEfectivo(Drop(t, n)) \/ (Len(t) > n /\ t[n + 1] = "%" /\ EsSufijoEfectivo(Drop(t, n + 1)))

\* The parts of a text <percent>%<suffix>
PosSigno(t) == CHOOSE k \in 1..Len(t) : t[k] = "%"
SufijoDe(t) == Drop(t, PosSigno(t))
\* percent / 100 in millionths
ValorDe(t) ==
    LET pct == SubSeq(t, 1, PosSigno(t) - 1)
        decimales == IF \E k \in 1..Len(pct) : ~IsDigit(pct[k])
                     THEN Len(pct) - (CHOOSE k \in 1..Len(pct) : ~IsDigit(pct[k]))
                     ELSE 0
    IN  DigitsValue(SelectSeq(pct, IsDigit)) * Pow10(precision - 2 - decimales)

NoEsBlanco(c) == c \notin Whitespace
\* Case folded, and the spaces (or all the whitespace) removed
SinEspacios(t) == upper(remove_char(t, " "))
SinBlancos(t) == upper(SelectSeq(t, NoEsBlanco))

Parseado == parse_res # None
Resultado == The(parse_res)

NominalEsperada(t) ==
    [valor |-> ValorDe(t), periodo |-> Meses(SufijoDe(t)[4]), tipo |-> NOMINAL,
     es_anticipada |-> (SufijoDe(t)[5] = "A"), periodo_nominal |-> Some(Meses(SufijoDe(t)[2]))]
EfectivaEsperada(t) ==
    [valor |-> ValorDe(t), periodo |-> MesesCodigo(SufijoDe(t)), tipo |-> EFECTIVA,
     es_anticipada |-> FALSE, periodo_nominal |-> None]

\* C9 (as stated): every text of the nominal grammar gives the NOMINAL rate with
\* value percent/100, nominal_period months(P1), period months(P2), anticipated iff the
\* last letter is A; every text of the effective grammar gives the EFFECTIVE rate.
C9_Original ==
    (Parseado /\ texto.es_str) =>
        /\ EsNominalSpec(texto.chars) => Resultado = Ok(NominalEsperada(texto.chars))
        /\ EsEfectivaSpec(texto.chars) => Resultado = Ok(EfectivaEsperada(texto.chars))

\* C9 (amended): the same for the texts of the nominal grammar with months(P1) >=
\* months(P2), in either case and with spaces ignored; for a text of the nominal grammar
\* with months(P1) < months(P2) from_string fails with a validation error; the
\* effective grammar as stated.
C9_FromStringGramatica ==
    (Parseado /\ texto.es_str) =>
        LET t == SinEspacios(texto.chars)
        IN  /\ EsNominalSpec(t) =>
                IF Meses(SufijoDe(t)[2]) >= Meses(SufijoDe(t)[4])
                THEN Resultado = Ok(NominalEsperada(t))
                ELSE Resultado = Err("ValueError")
            /\ EsEfectivaSpec(t) => Resultado = Ok(EfectivaEsperada(t))

\* C9 witness: an anticipated nominal text written with spaces or lower case, parsed.
C9_Witness ==
    /\ Parseado
    /\ texto.es_str
    /\ texto.chars # SinEspacios(texto.chars)
    /\ EsNominalSpec(SinEspacios(texto.chars))
    /\ Resultado.ok
    /\ Resultado.val.es_anticipada
    /\ Resultado.val.periodo = 3
    /\ Resultado.val.periodo_nominal = Some(6)

FallaDeFormato == ~Resultado.ok /\ Resultado.err = "ValueError" /\ Resultado.val = None

\* C10 (as stated): from_string fails with a validation error for every input that is
\* not text, is empty, or, case folded and without whitespace, matches neither
\* <percent>%N<P1>/<P2><V|A> nor <percent>%<CODE>.
C10_Original ==
    (/\ Parseado
     /\ \/ ~texto.es_str
        \/ texto.chars = <<>>
        \/ /\ ~EsNominalSpec(SinBlancos(texto.chars))
           /\ ~EsEfectivaSpec(SinBlancos(texto.chars)))
        => FallaDeFormato

\* C10 (amended): the same, with the '%' sign optional in both patterns.
C10_FromStringRechaza ==
    (/\ Parseado
     /\ \/ ~texto.es_str
        \/ texto.chars = <<>>
        \/ /\ ~EsNominalSignoOpcional(SinBlancos(texto.chars))
           /\ ~EsEfectivaSignoOpcional(SinBlancos(texto.chars)))
        => FallaDeFormato

\* C10 witness: a text with a percentage and a '%' that is rejected for what follows.
C10_Witness ==
    /\ Parseado
    /\ texto.es_str
    /\ \E k \in 2..Len(texto.chars) :
          texto.chars[k] = "%" /\ EsPorcentaje(SubSeq(texto.chars, 1, k - 1))
    /\ FallaDeFormato
    /\ ~EsNominalSignoOpcional(SinBlancos(texto.chars))

---------------------------------------------------------------------------
(* Properties of to_string after from_string (checked under SpecIda) *)

\* One unit of to_string's last displayed decimal of the percentage, as a value
UnidadMostrada == Pow10(DecimalesTexto - 2 - to_string_precision)
MismaForma(a, b) ==
    /\ a.tipo = b.tipo /\ a.periodo = b.periodo
    /\ a.periodo_nominal = b.periodo_nominal /\ a.es_anticipada = b.es_anticipada

\* C11 (as stated): for every text that from_string accepts,
\* from_string(to_string(from_string(text))) succeeds and yields a rate with the same
\* kind, period, nominal_period and anticipated flag, and the same value within the
\* display precision.
C11_Original ==
    (parse_res # None /\ The(parse_res).ok) =>
        /\ cadena # None => The(cadena).ok
        /\ vuelta # None =>
              /\ The(vuelta).ok
              /\ MismaForma(The(vuelta).val, The(parse_res).val)
              /\ Abs(The(vuelta).val.valor - The(parse_res).val.valor) <= UnidadMostrada

\* The percentage to_string writes is below 0.0001 and not 0: repr writes it in
\* scientific notation
EnNotacionCientifica(tasa) ==
    LET pct == RoundDivSigned(tasa.valor, UnidadMostrada)
    IN  pct # 0 /\ Abs(pct) < Pow10(to_string_precision - 4)

\* C11, the part that holds: the same for every accepted text whose percentage,
\* rounded to the display precision, is 0 or at least 0.0001.
C11_SinNotacionCientifica ==
    (parse_res # None /\ The(parse_res).ok /\ ~EnNotacionCientifica(The(parse_res).val)) =>
        /\ cadena # None => The(cadena).ok
        /\ vuelta # None =>
              /\ The(vuelta).ok
              /\ MismaForma(The(vuelta).val, The(parse_res).val)
              /\ Abs(The(vuelta).val.valor - The(parse_res).val.valor) <= UnidadMostrada

---------------------------------------------------------------------------
(* Properties of the conversion engine (checked under SpecConv) *)

EsValueError(r) == ~r.ok /\ r.err = "ValueError" /\ r.val = None
\* The periodic discount d = value / (nominal_period / period) of a nominal rate is >= 1
DescuentoTotal(tasa) ==
    tasa.valor * tasa.periodo >= The(tasa.periodo_nominal) * UnidadEntrada

\* C12 (as stated): for every valid NOMINAL rate and every new_period in {1,3,6,12},
\* cambiar_frecuencia returns a NOMINAL rate with the original nominal_period, period
\* equal to new_period and the original anticipated flag.
C12_Original ==
    (/\ conv_op = "cambiar_frecuencia"
     /\ conv_args.tasa.tipo = NOMINAL
     /\ conv_args.nuevo_periodo \in PeriodosEstandar)
        => /\ conv_res.ok
           /\ conv_res.val.tipo = NOMINAL
           /\ conv_res.val.periodo_nominal = conv_args.tasa.periodo_nominal
           /\ conv_res.val.periodo = conv_args.nuevo_periodo
           /\ conv_res.val.es_anticipada = conv_args.tasa.es_anticipada

\* The three steps: nominal -> periodic effective -> periodicity change -> nominal
TresPasos(tasa, nuevo_periodo) ==
    LET paso1 == nominal_a_efectiva_periodica(tasa, DecimalesEntrada)
    IN  IF ~paso1.ok THEN paso1
        ELSE LET paso2 == cambiar_temporalidad_en_efectivo(paso1.val, nuevo_periodo, precision)
             IN  IF ~paso2.ok THEN paso2
                 ELSE efectiva_periodica_a_nominal(paso2.val, The(tasa.periodo_nominal),
                                                   nuevo_periodo, tasa.es_anticipada, precision)

\* C12 (amended): for every valid NOMINAL rate and every new_period in {1,3,6,12},
\* cambiar_frecuencia gives what the three steps give: a validation error when
\* new_period exceeds the nominal_period (and when the rate is anticipated with a
\* periodic discount >= 1), and otherwise, for a value >= 0, a NOMINAL rate with the
\* original nominal_period, period equal to new_period and the original anticipated
\* flag; it never fails with another kind of error.
C12_CambiarFrecuencia ==
    (/\ conv_op = "cambiar_frecuencia"
     /\ conv_args.tasa.tipo = NOMINAL
     /\ conv_args.nuevo_periodo \in PeriodosEstandar)
        => LET tasa == conv_args.tasa
               nuevo == conv_args.nuevo_periodo
           IN  /\ conv_res = TresPasos(tasa, nuevo)
               /\ conv_res.ok =>
                     /\ conv_res.val.tipo = NOMINAL
                     /\ conv_res.val.periodo_nominal = tasa.periodo_nominal
                     /\ conv_res.val.periodo = nuevo
                     /\ conv_res.val.es_anticipada = tasa.es_anticipada
               /\ ~conv_res.ok => EsValueError(conv_res)
               /\ nuevo > The(tasa.periodo_nominal) => ~conv_res.ok
               /\ (tasa.es_anticipada /\ DescuentoTotal(tasa)) => ~conv_res.ok
               /\ (/\ tasa.valor >= 0
                   /\ nuevo <= The(tasa.periodo_nominal)
                   /\ ~(tasa.es_anticipada /\ DescuentoTotal(tasa))) => conv_res.ok

\* C12 witness: an anticipated semi-annually compounded nominal rate re-periodised to
\* quarterly compounding, with a new value.
C12_Witness ==
    /\ conv_op = "cambiar_frecuencia"
    /\ conv_args.tasa.tipo = NOMINAL
    /\ conv_args.tasa.es_anticipada
    /\ conv_args.tasa.valor > 0
    /\ conv_args.tasa.periodo = 6
    /\ conv_args.nuevo_periodo = 3
    /\ conv_res.ok
    /\ conv_res.val.periodo = 3
    /\ conv_res.val.valor * Pow10(DecimalesEntrada - precision) # conv_args.tasa.valor

\* What nominal_a_efectiva_periodica is to return: value / m for a due rate and
\* d / (1 - d) for an anticipated one, rounded
PeriodicaEsperada(tasa) ==
    LET num == tasa.valor * tasa.periodo
        pn == The(tasa.periodo_nominal)
    IN  [valor |-> IF tasa.es_anticipada THEN RoundQuot(num, pn * UnidadEntrada - num)
                   ELSE RoundDivSigned(num, pn * Pow10(DecimalesEntrada - precision)),
         periodo |-> tasa.periodo, tipo |-> EFECTIVA, es_anticipada |-> FALSE,
         periodo_nominal |-> None]

\* C13 (as stated): for every valid NOMINAL rate, nominal_a_efectiva_periodica fails
\* with a validation error exactly when the rate is anticipated and its periodic
\* discount d is >= 1, and otherwise returns the EFFECTIVE, due rate of the input's
\* capitalization period whose value is value/m, or d/(1-d) for an anticipated rate.
C13_Original ==
    (conv_op = "nominal_a_efectiva_periodica" /\ conv_args.tasa.tipo = NOMINAL)
        => IF conv_args.tasa.es_anticipada /\ DescuentoTotal(conv_args.tasa)
           THEN EsValueError(conv_res)
           ELSE conv_res = Ok(PeriodicaEsperada(conv_args.tasa))

\* C13, the part that holds: the same for every valid NOMINAL rate whose periodic value
\* does not round to -1.
C13_SalvoRedondeoAMenosUno ==
    (/\ conv_op = "nominal_a_efectiva_periodica"
     /\ conv_args.tasa.tipo = NOMINAL
     /\ ~(~conv_args.tasa.es_anticipada /\ PeriodicaEsperada(conv_args.tasa).valor <= -Escala))
        => IF conv_args.tasa.es_anticipada /\ DescuentoTotal(conv_args.tasa)
           THEN EsValueError(conv_res)
           ELSE conv_res = Ok(PeriodicaEsperada(conv_args.tasa))

\* C14 (as stated): for every valid NOMINAL rate r on which
\* nominal_a_efectiva_periodica succeeds, re-nominalising the result with r's periods
\* and flag gives a NOMINAL rate with the same nominal_period, period and anticipated
\* flag as r and the same value within the rounding precision (one unit of the last
\* decimal kept).
C14_Original ==
    conv_origen # None =>
        LET r == The(conv_origen)
        IN  /\ conv_res.ok
            /\ conv_res.val.tipo = NOMINAL
            /\ conv_res.val.periodo_nominal = r.periodo_nominal
            /\ conv_res.val.periodo = r.periodo
            /\ conv_res.val.es_anticipada = r.es_anticipada
            /\ Abs(conv_res.val.valor * Pow10(DecimalesEntrada - precision) - r.valor)
                  <= Pow10(DecimalesEntrada - precision)

\* C14, the part that holds: for a value >= 0 the re-nominalised rate exists, has the
\* same periods and flag, and its value is within (m + 1) / 2 units of the last decimal
\* of r's, m = nominal_period / period (half a unit for each of the m periodic rates
\* and half a unit for the result).
C14_DentroDeMUnidades ==
    (conv_origen # None /\ The(conv_origen).valor >= 0) =>
        LET r == The(conv_origen)
        IN  /\ conv_res.ok
            /\ conv_res.val.tipo = NOMINAL
            /\ conv_res.val.periodo_nominal = r.periodo_nominal
            /\ conv_res.val.periodo = r.periodo
            /\ conv_res.val.es_anticipada = r.es_anticipada
            /\ 2 * r.periodo
                  * Abs(conv_res.val.valor * Pow10(DecimalesEntrada - precision) - r.valor)
                  <= (The(r.periodo_nominal) + r.periodo) * Pow10(DecimalesEntrada - precision)

\* C15 (as stated): a periodicity or frequency change given new_period <= 0, and an
\* effective-to-nominal conversion given periodo_nominal <= 0 or
\* periodo_capitalizacion <= 0, ends in a validation error, never in another kind of
\* error or a returned rate.
C15_Original ==
    /\ (/\ conv_op \in {"cambiar_temporalidad_en_efectivo", "cambiar_frecuencia"}
        /\ conv_args.nuevo_periodo <= 0) => EsValueError(conv_res)
    /\ (/\ conv_op = "efectiva_periodica_a_nominal"
        /\ conv_args.periodo_nominal <= 0 \/ conv_args.periodo_capitalizacion <= 0)
           => EsValueError(conv_res)

\* C15, the part that holds: the same with periodo_capitalizacion < 0 in place of
\* periodo_capitalizacion <= 0.
C15_SalvoCapitalizacionCero ==
    /\ (/\ conv_op \in {"cambiar_temporalidad_en_efectivo", "cambiar_frecuencia"}
        /\ conv_args.nuevo_periodo <= 0) => EsValueError(conv_res)
    /\ (/\ conv_op = "efectiva_periodica_a_nominal"
        /\ conv_args.periodo_capitalizacion # 0
        /\ conv_args.periodo_nominal <= 0 \/ conv_args.periodo_capitalizacion < 0)
           => EsValueError(conv_res)

---------------------------------------------------------------------------
(* Properties of the Calculador (checked under SpecCalc) *)

SoloValido == <<"validar_monto_plazos">>
EsNumerico(x) == x.tipo \in {"int", "float"}
EsEntero(x) == x.tipo = "int"

\* C16 (as stated): for every call of calcular_cuota_fija(amount, rate, terms), if
\* amount is not numeric or terms is not an integer the outcome is a TypeError;
\* otherwise if amount < 0 or terms <= 0 it is a validation error; in all these cases
\* no installment is returned and the rate is not evaluated.
C16_Original ==
    calc_op = "calcular_cuota_fija" =>
        LET monto == calc_args.monto
            plazos == calc_args.plazos
        IN  /\ (~EsNumerico(monto) \/ ~EsEntero(plazos))
                  => calc_res = Err("TypeError") /\ calc_traza = SoloValido
            /\ (EsNumerico(monto) /\ EsEntero(plazos) /\ (monto.v < 0 \/ plazos.v <= 0))
                  => calc_res = Err("ValueError") /\ calc_traza = SoloValido

\* C16 (amended): the amount is checked before the terms.  If amount is not numeric the
\* outcome is a TypeError; otherwise if amount < 0 it is a validation error (whatever
\* terms is); otherwise if terms is not an integer it is a TypeError; otherwise if
\* terms <= 0 it is a validation error.  In all these cases no installment is returned
\* and the rate is not evaluated; in every other case the rate is evaluated.  In
\* particular calcular_cuota_fija(-1, rate, 5) fails with a validation error.
C16_MontoAntesQuePlazos ==
    calc_op = "calcular_cuota_fija" =>
        LET monto == calc_args.monto
            plazos == calc_args.plazos
        IN  IF ~EsNumerico(monto) THEN calc_res = Err("TypeError") /\ calc_traza = SoloValido
            ELSE IF monto.v < 0 THEN calc_res = Err("ValueError") /\ calc_traza = SoloValido
            ELSE IF ~EsEntero(plazos)
            THEN calc_res = Err("TypeError") /\ calc_traza = SoloValido
            ELSE IF plazos.v <= 0 THEN calc_res = Err("ValueError") /\ calc_traza = SoloValido
            ELSE calc_traza = <<"validar_monto_plazos", "tasa_periodica">>

\* C16 witness: calcular_cuota_fija(-1, rate, 5) has failed with a validation error
\* without evaluating the rate.
C16_Witness ==
    /\ calc_op = "calcular_cuota_fija"
    /\ calc_args.monto = Py("int", -100)
    /\ calc_args.plazos = Py("int", 5)
    /\ calc_args.tasa # None
    /\ calc_res = Err("ValueError")
    /\ calc_traza = SoloValido

---------------------------------------------------------------------------
(* Properties of the Estandarizador (checked under SpecEst) *)

Graficadores == {"graficador_interes_simple", "graficador_interes_compuesto"}
\* The rate is anticipated with a periodic discount >= 1: it has no due equivalent
SinEquivalenteVencida(t) ==
    t.es_anticipada /\ (IF t.tipo = NOMINAL THEN DescuentoTotal(t) ELSE t.valor >= UnidadEntrada)
\* terms + 1 rows, Periodo 0, 1, ..., terms in order, row 0 worth the principal rounded
\* to money precision
SerieCompleta(res, principal, periodos) ==
    /\ res.ok
    /\ Len(res.val) = periodos.v + 1
    /\ \A n \in 1..Len(res.val) : res.val[n].Periodo = n - 1
    /\ res.val[1].Valor = RoundDiv(principal.v, Pow10(DecimalesMonto - money_round))

\* C17 (as stated): for every principal >= 0, valid rate and integer terms >= 0,
\* graficador_interes_simple and graficador_interes_compuesto each return exactly
\* terms + 1 rows whose Periodo column is 0, 1, ..., terms in order and whose row 0 Valor
\* is the principal rounded to money precision.
C17_Original ==
    (/\ calc_op \in Graficadores
     /\ EsNumerico(calc_args.principal) /\ calc_args.principal.v >= 0
     /\ calc_args.tasa # None
     /\ EsEntero(calc_args.periodos) /\ calc_args.periodos.v >= 0)
        => SerieCompleta(calc_res, calc_args.principal, calc_args.periodos)

\* C17 (amended): for every principal >= 0, integer terms >= 0 (0 included) and valid
\* rate, both series generators fail with a validation error when the rate is
\* anticipated with a periodic discount >= 1, and otherwise return exactly terms + 1
\* rows whose Periodo column is 0, 1, ..., terms in order and whose row 0 Valor is the
\* principal rounded to money precision.
C17_SerieDeTasaReducible ==
    (/\ calc_op \in Graficadores
     /\ EsNumerico(calc_args.principal) /\ calc_args.principal.v >= 0
     /\ calc_args.tasa # None
     /\ EsEntero(calc_args.periodos) /\ calc_args.periodos.v >= 0)
        => IF SinEquivalenteVencida(The(calc_args.tasa)) THEN EsValueError(calc_res)
           ELSE SerieCompleta(calc_res, calc_args.principal, calc_args.periodos)

\* C17 witness: the compound series of terms = 0 at 2% per period, whose only row is
\* the principal 100.507 rounded to 100.51.
C17_Witness ==
    /\ calc_op = "graficador_interes_compuesto"
    /\ calc_args.principal = Py("float", 100507)
    /\ calc_args.tasa # None
    /\ The(calc_args.tasa).valor = 2 * (UnidadEntrada \div 100)
    /\ calc_args.periodos = Py("int", 0)
    /\ calc_res = Ok(<<[Periodo |-> 0, Valor |-> 10051]>>)

ModosValidos == {"credito", "inversion"}
\* The EA of an option whose tasa is a rate value
EADe(opcion) == tasa_a_ea_std(The(opcion.tasa), precision).val
\* fila is a row of the EA table of the options, with the least EA of all options for
\* "credito" and the greatest for "inversion"
MejorFila(fila, opciones, modo) ==
    /\ \E k \in 1..Len(opciones) :
          fila = [Nombre |-> NombreDe(opciones[k]), EA |-> EADe(opciones[k])]
    /\ \A k \in 1..Len(opciones) :
          IF modo = "credito" THEN fila.EA <= EADe(opciones[k])
          ELSE fila.EA >= EADe(opciones[k])

---------------------------------------------------------------------------
(* Properties of a Comparador shared by two callers (checked under SpecCompartido) *)

\* The rank-1 row of the table caller h's own ranking call returned
PrimeraDe(h) == The(hilo_tabla[h]).val[1]

\* C19: when two callers share one Comparador and each makes a ranking call followed
\* by mejor_opcion, a caller's mejor_opcion returns the rank-1 row of the ranking call
\* that completed last before it, the other caller's when that one ranked in between
\* (the rank-then-read sequence is not atomic); the witness is such an interleaving.
C19_LeeElUltimoRanking ==
    \A h \in Hilos :
        hilo_pc[h] = "leido" =>
            /\ hilo_mejor[h] # None
            /\ The(hilo_mejor[h]) =
                  IF hilo_origen[h] = None THEN Ok(None)
                  ELSE Ok(Some(PrimeraDe(The(hilo_origen[h]))))

\* C19 witness: caller 1 ranked, then caller 2 ranked, then caller 1 read: it got the
\* rank-1 row of caller 2's ranking, which is not the rank-1 row of its own.
C19_Witness ==
    /\ hilo_pc[1] = "leido"
    /\ hilo_tabla[1] # None /\ The(hilo_tabla[1]).ok
    /\ hilo_tabla[2] # None /\ The(hilo_tabla[2]).ok
    /\ hilo_origen[1] = Some(2)
    /\ The(hilo_mejor[1]) = Ok(Some(The(hilo_tabla[2]).val[1]))
    /\ The(hilo_mejor[1]) # Ok(Some(The(hilo_tabla[1]).val[1]))

---------------------------------------------------------------------------
(* Properties of several Comparador instances (checked under SpecInstancias) *)

\* C20: under any interleaving of calls on several Comparador instances, a ranking call
\* or mejor_opcion on one instance leaves the retained ranking of every other instance
\* unchanged, and mejor_opcion on an instance returns the rank-1 row of that instance's
\* own last ranking (None when it has none).
C20_RankingPorInstancia ==
    [][/\ \A b \in Instancias : b # inst_op'.inst => inst_ranking'[b] = inst_ranking[b]
       /\ inst_op'.op = "mejor_opcion" =>
             /\ inst_ranking' = inst_ranking
             /\ inst_op'.res =
                   IF inst_ultima[inst_op'.inst] = None THEN Ok(None)
                   ELSE Ok(Some(The(inst_ultima[inst_op'.inst])[1]))]_vars

\* C20 witness: A and B retain different rankings, and mejor_opcion on B has returned
\* the rank-1 row of B's, which is not the rank-1 row of A's.
C20_Witness ==
    /\ inst_ranking["A"] # None
    /\ inst_ranking["B"] # None
    /\ inst_op.inst = "B"
    /\ inst_op.op = "mejor_opcion"
    /\ inst_op.res = Ok(Some(The(inst_ranking["B"])[1]))
    /\ inst_op.res # Ok(Some(The(inst_ranking["A"])[1]))

---------------------------------------------------------------------------
(* Calculador.tasa_periodica against the Convertidor (checked under SpecPeriodica) *)

\* Both calls were made, on the same rate
AmbasReducciones ==
    /\ calc_op = "tasa_periodica"
    /\ conv_op = "nominal_a_efectiva_periodica"
    /\ calc_args.tasa = Some(conv_args.tasa)

\* round(valor, precision) of a rate held in units of 10^-DecimalesEntrada
ValorRedondeado(tasa) == RoundDivSigned(tasa.valor, Pow10(DecimalesEntrada - precision))

\* C21 (as stated): for every valid rate value and equal precision, tasa_periodica
\* returns the value of nominal_a_efectiva_periodica(rate) for a NOMINAL rate and fails
\* exactly when that conversion fails; for an EFFECTIVE rate, due or anticipated, it
\* returns the rate's own rounded value.
C21_Original ==
    AmbasReducciones =>
        IF conv_args.tasa.tipo = NOMINAL
        THEN /\ calc_res.ok <=> conv_res.ok
             /\ conv_res.ok => calc_res = Ok(conv_res.val.valor)
        ELSE calc_res = Ok(ValorRedondeado(conv_args.tasa))

\* The periodic value of a due rate rounds to -1, which the constructor of the
\* Convertidor's result rejects and tasa_periodica returns
RedondeaAMenosUno(tasa) ==
    /\ tasa.tipo = NOMINAL
    /\ ~tasa.es_anticipada
    /\ PeriodicaEsperada(tasa).valor <= -Escala

\* C21, the part that holds: the same for every valid rate that is not EFFECTIVE and
\* anticipated and whose periodic value does not round to -1.
C21_SalvoEfectivaAnticipadaYMenosUno ==
    (/\ AmbasReducciones
     /\ ~(conv_args.tasa.tipo = EFECTIVA /\ conv_args.tasa.es_anticipada)
     /\ ~RedondeaAMenosUno(conv_args.tasa))
        => IF conv_args.tasa.tipo = NOMINAL
           THEN /\ calc_res.ok <=> conv_res.ok
                /\ conv_res.ok => calc_res = Ok(conv_res.val.valor)
           ELSE calc_res = Ok(ValorRedondeado(conv_args.tasa))

\* An anticipated EFFECTIVE rate of 24% per month: tasa_periodica has returned
\* d / (1 - d), not the rate's own rounded value.
C21_EfectivaAnticipada ==
    /\ AmbasReducciones
    /\ conv_args.tasa = Tasa(24 * Pow10(5), 1, EFECTIVA, TRUE, None)
    /\ calc_res = Ok(315789)

\* A due NOMINAL rate of -99.99996% with m = 1: tasa_periodica has returned -1 and the
\* Convertidor has raised ValueError.
C21_MenosUno ==
    /\ AmbasReducciones
    /\ conv_args.tasa = Tasa(4 - UnidadEntrada, 12, NOMINAL, FALSE, Some(12))
    /\ calc_res = Ok(-Escala)
    /\ EsValueError(conv_res)

\* An anticipated NOMINAL rate of 24% NA/MA: both have returned d / (1 - d) with
\* d = 0.02, and an anticipated NOMINAL rate whose discount is 1 makes both fail.
C21_NominalAnticipada ==
    /\ AmbasReducciones
    /\ conv_args.tasa = Tasa(24 * Pow10(5), 1, NOMINAL, TRUE, Some(12))
    /\ calc_res = Ok(20408)
    /\ conv_res.ok /\ conv_res.val.valor = 20408

---------------------------------------------------------------------------
(* Failed ranking calls of the Comparador (checked under Spec) *)

\* C22: a ranking call that fails leaves the retained ranking as it was before the call,
\* and a call on a list with an option whose "tasa" is not a rate value, at any
\* position, fails; the retained ranking only ever changes to the whole table that a
\* successful ranking call returned, one row per option; and a mejor_opcion that follows
\* a failed call returns the rank-1 row of the ranking retained before that call.
C22_FalloNoRetiene ==
    [][/\ op' \in RankingOps =>
             /\ ~Validas(entrada') => EsValueError(salida')
             /\ ~salida'.ok => /\ ranking' = ranking
                               /\ mejor_opcion(ranking') = mejor_opcion(ranking)
             /\ salida'.ok => /\ ranking' = Some(salida'.val)
                              /\ Len(salida'.val) = Len(entrada')
       /\ ranking' # ranking => op' \in RankingOps /\ salida'.ok
       /\ (op \in RankingOps /\ ~salida.ok /\ op' = "mejor_opcion") =>
             /\ ranking' = ranking
             /\ salida' = IF ultima = None THEN Ok(None) ELSE Ok(Some(The(ultima)[1]))]_vars

\* C22 witness: a ranking call on <<Banco A, an option without a rate value>> has
\* failed after Banco A's row was built, and the ranking retained is still the earlier
\* one of Banco C alone.
C22_Witness ==
    /\ op \in RankingOps
    /\ entrada = <<BancoA, SinTasa>>
    /\ EsValueError(salida)
    /\ ranking # None
    /\ ranking = ultima
    /\ Len(The(ranking)) = 1
    /\ The(ranking)[1].Nombre = "Banco C"

====
